---- MODULE Spec2Model ----
(***************************************************************************)
(* Model of the macro execution engine of the grblHAL macros plugin        *)
(* (src/macros.c): trigger dispatch (pin interrupt, key-code preview,      *)
(* direct invocation), stream substitution (get_macro_char), the status    *)
(* trap (trap_status_messages), teardown (end_macro) and the reset hook    *)
(* (plugin_reset), and the macro text setting (macro_set).                 *)
(*                                                                         *)
(* Function pointers are modelled by the name of the function they hold,   *)
(* "NULL" for a null pointer.  Every handler of the plugin is one action:  *)
(* the handlers run to completion on the foreground context, the pin       *)
(* interrupt only enqueues.  The host (grblHAL core) is the environment:   *)
(* it polls hal.stream.read, reports status codes through                  *)
(* grbl.report.status_message, executes deferred tasks, resets, calls      *)
(* grbl.on_macro_return (M99), changes the machine state and may install   *)
(* another of its own input streams into hal.stream (the case tested by    *)
(* the guards at macros.c:188, :198, :240 and :249).                       *)
(*                                                                         *)
(* The record kp is the state of keypad.c: its key-code buffer, its key     *)
(* processing and its own copy of the macro engine.                        *)
(***************************************************************************)
EXTENDS Integers, Sequences, FiniteSets, TLC

\* ------------------------------------------------------------------ bounds
N_MACROS == 2

\* Size of the key-code ring buffer of keypad.c.
KEYBUF_SIZE == 8

\* Longest macro text of the model (MACRO_LENGTH_MAX is 127 in the source).
MaxLen == 3

\* Capacity of the host's queue of deferred foreground tasks.
MaxTasks == 1

\* ------------------------------------------------------------- vocabulary
NULL == "NULL"
GET_MACRO_CHAR == "get_macro_char"
TRAP == "trap_status_messages"
END_MACRO == "end_macro"

SERIAL_NO_DATA == "SERIAL_NO_DATA"
ASCII_LF == "LF"
NUL == "NUL"
BAR == "|"
XFF == "0xFF"

STATE_IDLE == "STATE_IDLE"
STATE_CYCLE == "STATE_CYCLE"
SysStates == {STATE_IDLE, STATE_CYCLE}

Status_OK == "Status_OK"
Status_Unhandled == "Status_Unhandled"
Status_GcodeError == "Status_GcodeError"
StatusCodes == {Status_OK, Status_GcodeError}

\* Characters a macro text is made of: an ordinary character and the delimiter.
Chars == {"a", BAR}

RECURSIVE SeqsUpTo(_, _)
SeqsUpTo(S, n) ==
    IF n = 0 THEN {<<>>}
    ELSE LET shorter == SeqsUpTo(S, n - 1)
         IN  shorter \cup {Append(t, c) : t \in {u \in shorter : Len(u) = n - 1}, c \in S}

\* Contents of macro_setting_t.data: a NUL terminated text of at most MaxLen
\* characters, or the erased state (every byte 0xFF, macros.c:447).
Erased == <<XFF>>
Texts == SeqsUpTo(Chars, MaxLen) \cup {Erased}

Slots == 0 .. (N_MACROS - 1)

\* macro[-1]: the bytes in front of plugin_settings, which macro_execute(0)
\* reads (macros.c:281 indexes macro[macro - 1] with macro = 0).
OobSlot == 0 - 1

\* The io_stream_t values the host itself installs in hal.stream.
SerialStream == [read |-> "serial_read", file |-> NULL]
FileStream == [read |-> "file_read", file |-> "FILE"]
HostStreams == {SerialStream, FileStream}
ZeroStream == [read |-> NULL, file |-> NULL]

\* The host's own handlers, and those of a plugin chained in before this one.
REPORT_STATUS == "report_status_message"
DRIVER_RESET == "driver_reset"
OTHER_MACRO_RETURN == "other_on_macro_return"
OTHER_MACRO_EXECUTE == "other_on_macro_execute"
OTHER_KEYPRESS_PREVIEW == "other_on_keypress_preview"

\* command: NULL, or a pointer into the data of a slot.
CmdNull == [slot |-> 0, pos |-> 0 - 1]

VARIABLES
    plugin_settings,  \* macro[idx]: [action_idx, data]
    port,             \* port[idx]: the aux port claimed for macro idx
    on_macro_execute, \* saved grbl.on_macro_execute
    on_keypress_preview, \* saved keypad.on_keypress_preview
    command,          \* run cursor
    eol_ok,           \* function-static flag of get_macro_char
    active_stream,    \* copy of hal.stream taken at start
    status_message,   \* saved grbl.report.status_message
    on_macro_return,  \* saved grbl.on_macro_return
    hal_stream,       \* hal.stream
    grbl_status,      \* grbl.report.status_message
    grbl_return,      \* grbl.on_macro_return
    sys_state,        \* state_get()
    tasks,            \* host queue of deferred run_macro tasks: [cmd, in_run], cmd the
                      \* argument, in_run (history) whether a run was active when queued
    fault,            \* "none", or how the firmware crashed
    out,              \* history: characters returned by polls since the last start
    pre,              \* history: the three bindings immediately before the last start
    run_slot,         \* history: slot of the last accepted start
    switched,         \* history: the host replaced hal.stream during the current run
    log,              \* history: what the last operation did, in order
    watch,            \* history: the kinds of event the log records
    kp                \* the state of keypad.c

vars == <<plugin_settings, port, on_macro_execute, on_keypress_preview, command, eol_ok, active_stream, status_message,
          on_macro_return, hal_stream, grbl_status, grbl_return, sys_state, tasks,
          fault, out, pre, run_slot, switched, log, watch, kp>>

\* ----------------------------------------------------------- state record
\* The handlers are written as functions from state record to state record
\* so that a handler calling another is the composition the code performs.
St == [command |-> command, eol_ok |-> eol_ok, active_stream |-> active_stream,
       status_message |-> status_message, on_macro_return |-> on_macro_return,
       hal_stream |-> hal_stream, grbl_status |-> grbl_status,
       grbl_return |-> grbl_return, tasks |-> tasks, fault |-> fault,
       out |-> out, pre |-> pre, run_slot |-> run_slot, switched |-> switched,
       log |-> <<>>]

Set(s) ==
    /\ command' = s.command
    /\ eol_ok' = s.eol_ok
    /\ active_stream' = s.active_stream
    /\ status_message' = s.status_message
    /\ on_macro_return' = s.on_macro_return
    /\ hal_stream' = s.hal_stream
    /\ grbl_status' = s.grbl_status
    /\ grbl_return' = s.grbl_return
    /\ tasks' = s.tasks
    /\ fault' = s.fault
    /\ out' = s.out
    /\ pre' = s.pre
    /\ run_slot' = s.run_slot
    /\ switched' = s.switched
    /\ log' = s.log

\* The three host bindings the engine takes over.
Bindings(s) == [stream |-> s.hal_stream, status |-> s.grbl_status,
                ret |-> s.grbl_return]

\* History of a run that has ended.
NoPre == [stream |-> ZeroStream, status |-> NULL, ret |-> NULL]
Forget(s) == [s EXCEPT !.out = <<>>, !.pre = NoPre, !.run_slot = 0, !.switched = FALSE]

\* One entry of the log: what happened, with which function and value, and
\* the bindings, the run and its history at that moment.
Event(s, ev, h, code) ==
    [ev |-> ev, h |-> h, code |-> code, bind |-> Bindings(s),
     active |-> s.command # CmdNull, out |-> s.out, pre |-> s.pre,
     slot |-> s.run_slot, switched |-> s.switched]

Note(s, ev, h, code) ==
    IF ev \in watch THEN [s EXCEPT !.log = Append(@, Event(s, ev, h, code))] ELSE s

\* The program state proper of a record (no history).
Prog(s) == [command |-> s.command, eol_ok |-> s.eol_ok,
            active_stream |-> s.active_stream, status_message |-> s.status_message,
            on_macro_return |-> s.on_macro_return, hal_stream |-> s.hal_stream,
            grbl_status |-> s.grbl_status, grbl_return |-> s.grbl_return,
            tasks |-> s.tasks, fault |-> s.fault]

\* -------------------------------------------------------------- end_macro
\* A faulty end_macro that leaves hal.stream as it is (no line 188-189).
EndMacro_KeepStream(s) ==
    LET s0 == Note(s, IF s.command # CmdNull THEN "teardown" ELSE "idle_teardown",
                   END_MACRO, "")
    IN  IF s0.command # CmdNull
        THEN Forget([s0 EXCEPT
                       !.command = CmdNull,
                       !.grbl_return = s0.on_macro_return,
                       !.on_macro_return = NULL,
                       !.grbl_status = IF s0.grbl_status = TRAP
                                       THEN s0.status_message ELSE @,
                       !.status_message = NULL])
        ELSE s0

\* A faulty end_macro that restores the callbacks without testing command.
EndMacro_Unguarded(s) ==
    LET s0 == Note(s, IF s.command # CmdNull THEN "teardown" ELSE "idle_teardown",
                   END_MACRO, "")
        s1 == IF s0.hal_stream.read = GET_MACRO_CHAR
              THEN [s0 EXCEPT !.hal_stream = s0.active_stream]
              ELSE s0
    IN  Forget([s1 EXCEPT
                  !.command = CmdNull,
                  !.grbl_return = s1.on_macro_return,
                  !.on_macro_return = NULL,
                  !.grbl_status = IF s1.grbl_status = TRAP
                                  THEN s1.status_message ELSE @,
                  !.status_message = NULL])

\* A faulty end_macro that leaves grbl.on_macro_return as it is.
EndMacro_KeepReturn(s) ==
    LET s0 == Note(s, IF s.command # CmdNull THEN "teardown" ELSE "idle_teardown",
                   END_MACRO, "")
        s1 == IF s0.hal_stream.read = GET_MACRO_CHAR
              THEN [s0 EXCEPT !.hal_stream = s0.active_stream]
              ELSE s0
    IN  IF s1.command # CmdNull
        THEN Forget([s1 EXCEPT
                       !.command = CmdNull,
                       !.on_macro_return = NULL,
                       !.grbl_status = IF s1.grbl_status = TRAP
                                       THEN s1.status_message ELSE @,
                       !.status_message = NULL])
        ELSE s1

\* The log entry is made on entry: it holds the run that is being ended.
EndMacro(s) ==
    LET s0 == Note(s, IF s.command # CmdNull THEN "teardown" ELSE "idle_teardown",
                   END_MACRO, "")
        s1 == IF s0.hal_stream.read = GET_MACRO_CHAR
              THEN [s0 EXCEPT !.hal_stream = s0.active_stream]
              ELSE s0
    IN  IF s1.command # CmdNull
        THEN Forget([s1 EXCEPT
                       !.command = CmdNull,
                       !.grbl_return = s1.on_macro_return,
                       !.on_macro_return = NULL,
                       !.grbl_status = IF s1.grbl_status = TRAP
                                       THEN s1.status_message ELSE @,
                       !.status_message = NULL])
        ELSE s1

\* ----------------------------------------------------------- plugin_reset
\* A faulty plugin_reset that calls the chained handler first.
PluginReset_CallFirst(s) == EndMacro(Note(s, "call", DRIVER_RESET, ""))

PluginReset(s) == Note(EndMacro(s), "call", DRIVER_RESET, "")

\* --------------------------------------------------------- get_macro_char
\* *p for a pointer p into the data of a slot.
CharAt(cmd) ==
    LET data == plugin_settings[cmd.slot].data
    IN  IF cmd.pos < Len(data) THEN data[cmd.pos + 1] ELSE NUL

\* The value a poll hands to the interpreter.
Return(s, fn, c) ==
    Note([s EXCEPT !.out = IF s.command # CmdNull /\ c # SERIAL_NO_DATA
                           THEN Append(@, c) ELSE @],
         "poll", fn, c)

\* A faulty get_macro_char that does not remember a delimiter (line 231
\* without the assignment to eol_ok).
GetMacroChar_NoEol(s) ==
    IF s.command = CmdNull
    THEN [s EXCEPT !.fault = "null_dereference"]
    ELSE LET c == CharAt(s.command)
         IN  IF c = NUL
             THEN IF s.eol_ok
                  THEN Return(EndMacro(s), GET_MACRO_CHAR, SERIAL_NO_DATA)
                  ELSE Return([s EXCEPT !.eol_ok = TRUE], GET_MACRO_CHAR, ASCII_LF)
             ELSE Return([s EXCEPT !.command.pos = @ + 1, !.eol_ok = FALSE],
                         GET_MACRO_CHAR, IF c = BAR THEN ASCII_LF ELSE c)

\* A faulty get_macro_char that steps over the terminating NUL when it
\* returns the final line feed.
GetMacroChar_SkipNul(s) ==
    IF s.command = CmdNull
    THEN [s EXCEPT !.fault = "null_dereference"]
    ELSE LET c == CharAt(s.command)
         IN  IF c = NUL
             THEN IF s.eol_ok
                  THEN Return(EndMacro(s), GET_MACRO_CHAR, SERIAL_NO_DATA)
                  ELSE Return([s EXCEPT !.command.pos = @ + 1, !.eol_ok = TRUE],
                              GET_MACRO_CHAR, ASCII_LF)
             ELSE Return([s EXCEPT !.command.pos = @ + 1, !.eol_ok = (c = BAR)],
                         GET_MACRO_CHAR, IF c = BAR THEN ASCII_LF ELSE c)

\* A faulty get_macro_char that returns the delimiter as it is.
GetMacroChar_NoMap(s) ==
    IF s.command = CmdNull
    THEN [s EXCEPT !.fault = "null_dereference"]
    ELSE LET c == CharAt(s.command)
         IN  IF c = NUL
             THEN IF s.eol_ok
                  THEN Return(EndMacro(s), GET_MACRO_CHAR, SERIAL_NO_DATA)
                  ELSE Return([s EXCEPT !.eol_ok = TRUE], GET_MACRO_CHAR, ASCII_LF)
             ELSE Return([s EXCEPT !.command.pos = @ + 1, !.eol_ok = (c = BAR)],
                         GET_MACRO_CHAR, c)

\* A faulty get_macro_char that ends the run together with the final line
\* feed.
GetMacroChar_EarlyEnd(s) ==
    IF s.command = CmdNull
    THEN [s EXCEPT !.fault = "null_dereference"]
    ELSE LET c == CharAt(s.command)
         IN  IF c = NUL
             THEN IF s.eol_ok
                  THEN Return(EndMacro(s), GET_MACRO_CHAR, SERIAL_NO_DATA)
                  ELSE Return(EndMacro([s EXCEPT !.eol_ok = TRUE]), GET_MACRO_CHAR, ASCII_LF)
             ELSE Return([s EXCEPT !.command.pos = @ + 1, !.eol_ok = (c = BAR)],
                         GET_MACRO_CHAR, IF c = BAR THEN ASCII_LF ELSE c)

\* A faulty get_macro_char that reports the end of the text without ending
\* the run (no line 220).
GetMacroChar_NoTeardown(s) ==
    IF s.command = CmdNull
    THEN [s EXCEPT !.fault = "null_dereference"]
    ELSE LET c == CharAt(s.command)
         IN  IF c = NUL
             THEN IF s.eol_ok
                  THEN Return(s, GET_MACRO_CHAR, SERIAL_NO_DATA)
                  ELSE Return([s EXCEPT !.eol_ok = TRUE], GET_MACRO_CHAR, ASCII_LF)
             ELSE Return([s EXCEPT !.command.pos = @ + 1, !.eol_ok = (c = BAR)],
                         GET_MACRO_CHAR, IF c = BAR THEN ASCII_LF ELSE c)

GetMacroChar(s) ==
    IF s.command = CmdNull
    THEN [s EXCEPT !.fault = "null_dereference"]
    ELSE LET c == CharAt(s.command)
         IN  IF c = NUL
             THEN IF s.eol_ok
                  THEN Return(EndMacro(s), GET_MACRO_CHAR, SERIAL_NO_DATA)
                  ELSE Return([s EXCEPT !.eol_ok = TRUE], GET_MACRO_CHAR, ASCII_LF)
             ELSE Return([s EXCEPT !.command.pos = @ + 1, !.eol_ok = (c = BAR)],
                         GET_MACRO_CHAR, IF c = BAR THEN ASCII_LF ELSE c)

\* --------------------------------------------------- trap_status_messages
\* A call through a status_message_ptr made by the trap.  A null pointer is
\* a crash.  The trap calling itself finds the state it was called in (the
\* stream test and the saved pointer are as before), so it calls itself
\* again without end: the stack overflows.
CallStatus(s, h, code) ==
    IF h = NULL THEN [s EXCEPT !.fault = "null_call"]
    ELSE IF h = TRAP THEN [s EXCEPT !.fault = "stack_overflow"]
    ELSE Note(s, "call", h, code)

\* A faulty trap that does not test the status code.
TrapStatusMessages_WarnAll(s, code) ==
    IF s.hal_stream.read # GET_MACRO_CHAR
    THEN CallStatus(s, s.status_message, code)
    ELSE LET s1 == Note(s, "warning", TRAP, code)
             rechain == s1.grbl_status = TRAP
             s2 == IF rechain THEN [s1 EXCEPT !.grbl_status = s1.status_message] ELSE s1
             s3 == IF rechain /\ s2.grbl_status # NULL
                   THEN CallStatus(s2, s2.grbl_status, code) ELSE s2
         IN  IF s3.fault # "none" THEN s3 ELSE EndMacro(s3)

\* What the trap returns: its argument, or what the handler it called
\* returned for it.
ResultOf(h, code) == <<h, code>>

TrapReturn(s, value) == IF s.fault # "none" THEN s ELSE Note(s, "return", TRAP, value)

\* A faulty trap that hands a success status to the saved handler.
TrapStatusMessages_ForwardOk(s, code) ==
    IF s.hal_stream.read # GET_MACRO_CHAR
    THEN TrapReturn(CallStatus(s, s.status_message, code),
                    ResultOf(s.status_message, code))
    ELSE IF code # Status_OK
    THEN LET s1 == Note(s, "warning", TRAP, code)
             rechain == s1.grbl_status = TRAP
             s2 == IF rechain THEN [s1 EXCEPT !.grbl_status = s1.status_message] ELSE s1
             called == rechain /\ s2.grbl_status # NULL
             s3 == IF called THEN CallStatus(s2, s2.grbl_status, code) ELSE s2
         IN  IF s3.fault # "none" THEN s3
             ELSE TrapReturn(EndMacro(s3),
                             IF called THEN ResultOf(s2.grbl_status, code) ELSE code)
    ELSE TrapReturn(CallStatus(s, s.status_message, code),
                    ResultOf(s.status_message, code))

\* A faulty trap that forwards also when the character source is the
\* substitute: the first branch without its test.
TrapStatusMessages_ForwardTwice(s, code) ==
    IF s.hal_stream.read # GET_MACRO_CHAR
    THEN TrapReturn(CallStatus(CallStatus(s, s.status_message, code),
                               s.status_message, code),
                    ResultOf(s.status_message, code))
    ELSE IF code # Status_OK
    THEN LET s1 == Note(s, "warning", TRAP, code)
             rechain == s1.grbl_status = TRAP
             s2 == IF rechain THEN [s1 EXCEPT !.grbl_status = s1.status_message] ELSE s1
             called == rechain /\ s2.grbl_status # NULL
             s3 == IF called THEN CallStatus(s2, s2.grbl_status, code) ELSE s2
         IN  IF s3.fault # "none" THEN s3
             ELSE TrapReturn(EndMacro(s3),
                             IF called THEN ResultOf(s2.grbl_status, code) ELSE code)
    ELSE TrapReturn(s, code)

TrapStatusMessages(s, code) ==
    IF s.hal_stream.read # GET_MACRO_CHAR
    THEN TrapReturn(CallStatus(s, s.status_message, code),
                    ResultOf(s.status_message, code))
    ELSE IF code # Status_OK
    THEN LET s1 == Note(s, "warning", TRAP, code)
             rechain == s1.grbl_status = TRAP
             s2 == IF rechain THEN [s1 EXCEPT !.grbl_status = s1.status_message] ELSE s1
             called == rechain /\ s2.grbl_status # NULL
             s3 == IF called THEN CallStatus(s2, s2.grbl_status, code) ELSE s2
         IN  IF s3.fault # "none" THEN s3
             ELSE TrapReturn(EndMacro(s3),
                             IF called THEN ResultOf(s2.grbl_status, code) ELSE code)
    ELSE TrapReturn(s, code)

\* -------------------------------------------------------------- run_macro
\* The effect of an accepted start (lines 263-273).
Start(s, cmd) ==
    Note([s EXCEPT
            !.command = [slot |-> cmd, pos |-> 0],
            !.active_stream = s.hal_stream,
            !.hal_stream = [read |-> GET_MACRO_CHAR, file |-> NULL],
            !.status_message = s.grbl_status,
            !.grbl_status = TRAP,
            !.on_macro_return = s.grbl_return,
            !.grbl_return = END_MACRO,
            !.out = <<>>,
            !.pre = Bindings(s),
            !.run_slot = cmd,
            !.switched = FALSE],
         "start", "run_macro", "")

\* A faulty run_macro that does not test hal.stream.read.
RunMacro_NoStreamTest(s, cmd) ==
    LET first == CharAt([slot |-> cmd, pos |-> 0])
    IN  IF ~(first = NUL \/ first = XFF) /\ sys_state = STATE_IDLE
        THEN Start(s, cmd)
        ELSE s

\* A faulty run_macro that does not test the machine state.
RunMacro_NoIdleTest(s, cmd) ==
    LET first == CharAt([slot |-> cmd, pos |-> 0])
    IN  IF ~(first = NUL \/ first = XFF) /\ s.hal_stream.read # GET_MACRO_CHAR
        THEN Start(s, cmd)
        ELSE s

\* A faulty run_macro that ends the active run when it rejects a start for
\* collision.
RunMacro_EndOnCollision(s, cmd) ==
    LET first == CharAt([slot |-> cmd, pos |-> 0])
    IN  IF ~(first = NUL \/ first = XFF) /\ sys_state = STATE_IDLE
        THEN IF s.hal_stream.read # GET_MACRO_CHAR THEN Start(s, cmd) ELSE EndMacro(s)
        ELSE s

\* cmd is the slot whose data the pointer argument addresses.
RunMacro(s, cmd) ==
    LET first == CharAt([slot |-> cmd, pos |-> 0])
    IN  IF /\ ~(first = NUL \/ first = XFF)
           /\ s.hal_stream.read # GET_MACRO_CHAR
           /\ sys_state = STATE_IDLE
        THEN Start(s, cmd)
        ELSE s

\* ---------------------------------------------------------- macro_execute
MacroExecute(s, macro) ==
    LET ok == /\ macro <= N_MACROS
              /\ LET first == CharAt([slot |-> macro - 1, pos |-> 0])
                 IN  ~(first = NUL \/ first = XFF)
        s1 == IF ok /\ sys_state = STATE_IDLE THEN RunMacro(s, macro - 1) ELSE s
    IN  IF ok THEN Note(s1, "return", "macro_execute", Status_OK)
        ELSE IF on_macro_execute # NULL
        THEN Note(Note(s1, "call", on_macro_execute, ""),
                  "return", "macro_execute", on_macro_execute)
        ELSE Note(s1, "return", "macro_execute", Status_Unhandled)

\* ---------------------------------------------------------- execute_macro
\* action[]: the realtime command of a trigger action, 0 for "run macro".
action == <<"0", "CMD_CYCLE_START", "CMD_FEED_HOLD", "CMD_SAFETY_DOOR", "CMD_RESET",
            "CMD_OVERRIDE_SPINDLE_STOP", "CMD_OVERRIDE_COOLANT_MIST_TOGGLE",
            "CMD_OVERRIDE_COOLANT_FLOOD_TOGGLE", "CMD_PROBE_CONNECTED_TOGGLE",
            "CMD_OPTIONAL_STOP_TOGGLE", "CMD_SINGLE_BLOCK_TOGGLE">>

\* A faulty scan that finds the lowest slot bound to the port.
ScanPorts_Lowest(idx, irq_port) ==
    LET bound == {i \in 0 .. idx : port[i] = irq_port}
    IN  IF bound = {} THEN 0 ELSE CHOOSE i \in bound : \A j \in bound : i <= j

\* do { idx--; } while(idx && port[idx] != irq_port), entered with idx + 1.
RECURSIVE ScanPorts(_, _)
ScanPorts(idx, irq_port) ==
    IF idx # 0 /\ port[idx] # irq_port THEN ScanPorts(idx - 1, irq_port) ELSE idx

\* task_add_immediate of the host: the task is queued if the queue has room.
TaskAddImmediate(s, cmd) ==
    IF Len(s.tasks) < MaxTasks
    THEN Note([s EXCEPT !.tasks = Append(@, [cmd |-> cmd, in_run |-> s.command # CmdNull])],
              "task_add", "run_macro", "")
    ELSE s

\* A faulty execute_macro that issues the realtime command only when the
\* machine is idle.
ExecuteMacro_IdleOnly(s, irq_port, is_high) ==
    IF ~is_high /\ sys_state = STATE_IDLE
    THEN LET idx == ScanPorts(N_MACROS - 1, irq_port)
         IN  IF plugin_settings[idx].action_idx # 0
             THEN Note(s, "rt_command", "enqueue_realtime_command",
                       action[plugin_settings[idx].action_idx + 1])
             ELSE TaskAddImmediate(s, idx)
    ELSE s

\* A faulty execute_macro that starts the macro itself.
ExecuteMacro_DirectStart(s, irq_port, is_high) ==
    IF ~is_high
    THEN LET idx == ScanPorts(N_MACROS - 1, irq_port)
         IN  IF plugin_settings[idx].action_idx # 0
             THEN Note(s, "rt_command", "enqueue_realtime_command",
                       action[plugin_settings[idx].action_idx + 1])
             ELSE IF sys_state = STATE_IDLE
             THEN RunMacro(s, idx)
             ELSE s
    ELSE s

ExecuteMacro(s, irq_port, is_high) ==
    IF ~is_high
    THEN LET idx == ScanPorts(N_MACROS - 1, irq_port)
         IN  IF plugin_settings[idx].action_idx # 0
             THEN Note(s, "rt_command", "enqueue_realtime_command",
                       action[plugin_settings[idx].action_idx + 1])
             ELSE IF sys_state = STATE_IDLE
             THEN TaskAddImmediate(s, idx)
             ELSE s
    ELSE s

\* ------------------------------------------------------- keypress_preview
MacroKeys == <<"MACRO_KEY0", "MACRO_KEY1">>
OTHER_KEY == "OTHER_KEY"
KeyCodes == {MacroKeys[i] : i \in 1 .. N_MACROS} \cup {OTHER_KEY}

\* chained is what the previously installed preview handler answers.
\* A faulty keypress_preview that answers with what run_macro did.
KeypressPreview_StartedOnly(s, c, chained) ==
    LET hit == {i \in 1 .. N_MACROS : MacroKeys[i] = c}
    IN  IF hit # {}
        THEN LET s1 == RunMacro(s, (CHOOSE i \in hit : TRUE) - 1)
             IN  Note(s1, "return", "keypress_preview",
                      IF s1.command # s.command THEN "true" ELSE "false")
        ELSE IF on_keypress_preview # NULL
        THEN Note(Note(Note(s, "call", on_keypress_preview, c),
                       "answer", on_keypress_preview, IF chained THEN "true" ELSE "false"),
                  "return", "keypress_preview", IF chained THEN "true" ELSE "false")
        ELSE Note(s, "return", "keypress_preview", "false")

KeypressPreview(s, c, chained) ==
    LET hit == {i \in 1 .. N_MACROS : MacroKeys[i] = c}
    IN  IF hit # {}
        THEN Note(RunMacro(s, (CHOOSE i \in hit : TRUE) - 1),
                  "return", "keypress_preview", "true")
        ELSE IF on_keypress_preview # NULL
        THEN Note(Note(Note(s, "call", on_keypress_preview, c),
                       "answer", on_keypress_preview, IF chained THEN "true" ELSE "false"),
                  "return", "keypress_preview", IF chained THEN "true" ELSE "false")
        ELSE Note(s, "return", "keypress_preview", "false")

\* -------------------------------------------------------------- macro_set
\* Capacity of a slot in characters: data[] has MACRO_LENGTH_MAX + 1 bytes.
\* The source sets 127 (63 or 83 with more slots); the model takes the
\* longest text it explores.
MACRO_LENGTH_MAX == MaxLen

\* max_length as a number: macros_init prints MACRO_LENGTH_MAX into it, and
\* the entry of the macro text in macro_settings[] hands it to the host as
\* the longest value of the setting.
max_length_PlusNul == MACRO_LENGTH_MAX + 1

max_length == MACRO_LENGTH_MAX

\* strcpy(dst, value): the bytes of value and a NUL; what dst held behind
\* them stays.  (The bytes after the end of a sequence are a NUL and what
\* nobody reads.)
Strcpy(dst, value) ==
    IF Len(dst) > Len(value) + 1
    THEN value \o <<NUL>> \o SubSeq(dst, Len(value) + 2, Len(dst))
    ELSE value

\* macro_set on plugin_settings; slot is id - Setting_MacroBase.
MacroSet(settings, slot, value) ==
    [settings EXCEPT ![slot].data = Strcpy(@, value)]

\* strcpy writes behind data[] when value has more than MACRO_LENGTH_MAX
\* characters: into the next slot, or behind plugin_settings.
Overflows(value) == Len(value) > MACRO_LENGTH_MAX

\* Status of a value the host's settings handler refuses.
Status_SettingValueOutOfRange == "Status_SettingValueOutOfRange"

\* The host's settings handler for a text setting: it validates the length
\* of the value against the max_value of the setting's entry and calls the
\* entry's set function only with a value that passes.
SettingLengthOk(value) == Len(value) <= max_length

\* =========================================================================
\* keypad.c: the key-code buffer, key processing and the keypad plugin's own
\* macro engine.  The state of keypad.c is the record kp; the host's part of
\* it is the machine state, hal.stream.read, grbl.report.status_message and
\* the queue of deferred foreground calls.
STATE_ALARM == "STATE_ALARM"
STATE_ESTOP == "STATE_ESTOP"
KeypadStates == {STATE_IDLE, STATE_CYCLE, STATE_ALARM, STATE_ESTOP}

TRAP_STATUS_REPORT == "trap_status_report"
RUN_MACRO == "run_macro"
KEYPAD_PROCESS_KEYPRESS == "keypad_process_keypress"
SERIAL_READ == "serial_read"
MPG_READ == "mpg_read"

\* Key codes; NO_KEY is the 0 keypad_get_keycode returns on an empty buffer.
NO_KEY == "0"
KEY_STATUS == "?"
RESET == "RESET"
UNLOCK == "UNLOCK"
CMD_MPG_MODE_TOGGLE == "CMD_MPG_MODE_TOGGLE"
MACROUP == "MACROUP"
MACROLEFT == "MACROLEFT"
MACRODOWN == "MACRODOWN"
MACRORIGHT == "MACRORIGHT"
SPINON == "SPINON"
KEY_HOME == "H"
JOG_XR == "R"
CMD_JOG_CANCEL == "CMD_JOG_CANCEL"
ASCII_CAN == "ASCII_CAN"
CMD_FEED_HOLD_LEGACY == "!"
CMD_CYCLE_START_LEGACY == "~"

\* The keys the spec lists as permitted in every state.
AllowKeys == {KEY_STATUS, RESET, UNLOCK, CMD_MPG_MODE_TOGGLE}

\* The macro a key requests (keypad.c:469-491).
KeyMacro == [k \in {MACROUP, MACROLEFT, MACRODOWN, MACRORIGHT, SPINON} |->
                CASE k = MACROUP -> 0
                  [] k = MACROLEFT -> 1
                  [] k = MACRODOWN -> 2
                  [] k = MACRORIGHT -> 3
                  [] k = SPINON -> 4]

KeypadSlots == 0 .. 4

\* The build modelled hands the MPG toggle key to the foreground.
MPG_MODE == 2

\* The foreground outside keypad_process_keypress: pc is the statement the
\* handler stands before, state its argument, bptr, data, command and
\* addedGcode its locals.
FgIdle ==
    [pc |-> "idle", state |-> STATE_IDLE, bptr |-> 0, data |-> NO_KEY, command |-> "",
     added |-> FALSE, flushed |-> FALSE]

\* The log of keypad.c: what the last operation did, in order.
KNote(k, ev, h, code) == [k EXCEPT !.log = Append(@, [ev |-> ev, h |-> h, code |-> code])]

KBegin(k, name, arg) == KNote([k EXCEPT !.log = <<>>], "op", name, arg)

\* protocol_enqueue_rt_command(fn)
KeypadEnqueueRt(k, fn) == KNote([k EXCEPT !.queue = Append(@, fn)], "task_add", fn, "")

\* ---------------------------------------------------- end_macro (keypad.c)
\* A faulty end_macro that leaves is_executing as it is.
KeypadEndMacro_KeepFlag(k) ==
    IF k.read = GET_MACRO_CHAR
    THEN KNote([k EXCEPT !.read = k.stream_read, !.status_message = REPORT_STATUS],
               "teardown", END_MACRO, "")
    ELSE k

\* report_init_fns() puts the host's own handlers back into grbl.report.
KeypadEndMacro(k) ==
    LET k1 == [k EXCEPT !.is_executing = FALSE]
    IN  IF k1.read = GET_MACRO_CHAR
        THEN KNote([k1 EXCEPT !.read = k1.stream_read, !.status_message = REPORT_STATUS],
                   "teardown", END_MACRO, "")
        ELSE k1

KeypadPluginReset(k) == KNote(KeypadEndMacro(k), "call", DRIVER_RESET, "")

\* ------------------------------------------------ get_macro_char (keypad.c)
KeypadCharAt(k, cmd) ==
    LET data == k.macro[cmd.slot]
    IN  IF cmd.pos < Len(data) THEN data[cmd.pos + 1] ELSE NUL

\* The value a poll hands to the interpreter.
KeypadReturn(k, c) ==
    KNote([k EXCEPT !.out = IF c # SERIAL_NO_DATA THEN Append(@, c) ELSE @],
          "poll", GET_MACRO_CHAR, c)

KeypadGetMacroChar(k) ==
    IF KeypadCharAt(k, k.command) = NUL
    THEN KeypadReturn(KeypadEndMacro(k), IF k.eol_ok THEN SERIAL_NO_DATA ELSE ASCII_LF)
    ELSE LET c == KeypadCharAt(k, k.command)
             k1 == [k EXCEPT !.command.pos = @ + 1, !.eol_ok = (c = BAR)]
         IN  KeypadReturn(k1, IF c = BAR THEN ASCII_LF ELSE c)

\* --------------------------------------------- trap_status_report (keypad.c)
KeypadTrapStatusReport(k, status_code) ==
    KNote(IF status_code # Status_OK
          THEN KeypadEndMacro(KNote(k, "warning", TRAP_STATUS_REPORT, status_code))
          ELSE k,
          "return", TRAP_STATUS_REPORT, status_code)

\* ----------------------------------------------------- run_macro (keypad.c)
KeypadRunMacro(k, state) ==
    IF state = STATE_IDLE /\ k.read # GET_MACRO_CHAR
    THEN KNote([k EXCEPT !.stream_read = k.read, !.read = GET_MACRO_CHAR,
                         !.status_message = TRAP_STATUS_REPORT, !.out = <<>>],
               "start", RUN_MACRO, state)
    ELSE KNote(k, "drop", RUN_MACRO, state)

\* ------------------------------------------------- execute_macro (keypad.c)
KeypadExecuteMacro(k, macro) ==
    LET k0 == KNote(k, "call", "execute_macro", macro)
    IN  IF ~k0.is_executing /\ k0.state = STATE_IDLE
        THEN LET k1 == [k0 EXCEPT !.is_executing = TRUE,
                                  !.command = [slot |-> macro, pos |-> 0]]
                 c == KeypadCharAt(k1, k1.command)
             IN  IF ~(c = NUL \/ c = XFF)
                 THEN KeypadEnqueueRt(k1, RUN_MACRO)
                 ELSE KNote(k1, "drop", "execute_macro", "empty")
        ELSE KNote(k0, "drop", "execute_macro",
                   IF k0.is_executing THEN "executing" ELSE "not_idle")

\* ---------------------------------------- the key codes owed to the caller
\* pending is the history of the ring buffer: the key codes the enqueue
\* functions accepted since the last flush that keypad_get_keycode has not
\* returned yet, oldest first.
Accepted(k, c) == [k EXCEPT !.pending = Append(@, c)]

\* A flush drops what was accepted before it; fg.flushed tells that it came
\* while a dequeue stood between its read of tail and its write of tail.
Flushed(k) ==
    [k EXCEPT !.pending = <<>>,
              !.fg.flushed = @ \/ k.fg.pc \in {"test_head", "read_buf", "write_tail"}]

\* keypad_get_keycode returns data.
Returned(k, data) ==
    IF data = NO_KEY \/ k.fg.flushed \/ k.pending = <<>> THEN k
    ELSE [k EXCEPT !.pending = Tail(@)]

\* ------------------------------------------------------ keypad_get_keycode
\* The key code taken and the record with tail advanced.
KeypadGetKeycode(k) ==
    LET bptr == k.keybuf.tail
    IN  IF bptr # k.keybuf.head
        THEN [data |-> k.keybuf.buf[bptr],
              k |-> Returned([k EXCEPT !.keybuf.tail = (bptr + 1) % KEYBUF_SIZE],
                             k.keybuf.buf[bptr])]
        ELSE [data |-> NO_KEY, k |-> k]

\* ------------------------------------------------------------ disable_lock
\* blocked: self-test failed, e-stop, door ajar or reset signal asserted.
DisableLock(k, state, blocked) ==
    IF state \in {STATE_ALARM, STATE_ESTOP}
    THEN IF blocked THEN k
         ELSE KNote([k EXCEPT !.state = STATE_IDLE], "state_set", "disable_lock", STATE_IDLE)
    ELSE k

\* stream_mpg_enable(on): the host puts the MPG stream, or the serial stream
\* back, into hal.stream.
StreamType(k) ==
    IF (IF k.read = GET_MACRO_CHAR THEN k.stream_read ELSE k.read) = MPG_READ
    THEN "StreamType_MPG" ELSE "StreamType_Serial"

StreamMpgEnable(k, on) ==
    KNote([k EXCEPT !.read = IF on THEN MPG_READ ELSE SERIAL_READ],
          "call", "stream_mpg_enable", on)

\* -------------------------------------------------- keypad_process_keypress
\* The inputs the handler reads from the host: the answer of the preview
\* hook, the spindle state, whether the unlock is blocked and whether
\* grbl.enqueue_gcode accepted the command.
KeypadInputs == [consumed : BOOLEAN, spindle_on : BOOLEAN, blocked : BOOLEAN,
                 added : BOOLEAN]

\* The inputs the handler can read when it takes keycode in state: those it
\* does not read are held at one value.
KeypadInputsFor(k, state, keycode) ==
    LET switch == state # STATE_ESTOP /\ keycode # NO_KEY
    IN  {in \in KeypadInputs :
            /\ in.consumed => (switch /\ k.on_keypress_preview # NULL)
            /\ in.spindle_on => (switch /\ keycode = SPINON)
            /\ in.blocked => (switch /\ keycode = UNLOCK)
            /\ ~in.added => (switch /\ keycode \in {SPINON, KEY_HOME, JOG_XR})}

GcodeNone == ""
GcodeJog == "$J=G91G21X?F"

\* The switch on the key code: the record after the case and the local command.
KeypadSwitch(k, keycode, in) ==
    LET k0 == KNote(k, "case", KEYPAD_PROCESS_KEYPRESS, keycode)
    IN  CASE keycode = KEY_STATUS ->
               [k |-> KNote(KNote(k0, "rt_command", KEYPAD_PROCESS_KEYPRESS,
                                  "CMD_STATUS_REPORT"),
                            "call", "send_status_info", ""),
                command |-> GcodeNone]
          [] keycode \in {MACROUP, MACRODOWN, MACROLEFT, MACRORIGHT} ->
               [k |-> KeypadExecuteMacro(k0, KeyMacro[keycode]), command |-> GcodeNone]
          [] keycode = SPINON ->
               IF ~in.spindle_on
               THEN [k |-> KeypadExecuteMacro(k0, KeyMacro[keycode]), command |-> GcodeNone]
               ELSE [k |-> k0, command |-> "M05"]
          [] keycode = UNLOCK ->
               [k |-> DisableLock(k0, k0.state, in.blocked), command |-> GcodeNone]
          [] keycode = RESET ->
               [k |-> KNote(k0, "rt_command", KEYPAD_PROCESS_KEYPRESS, "CMD_RESET"),
                command |-> GcodeNone]
          [] keycode = CMD_MPG_MODE_TOGGLE ->
               [k |-> IF k0.driver_cap_mpg_mode
                      THEN StreamMpgEnable(k0, StreamType(k0) # "StreamType_MPG")
                      ELSE k0,
                command |-> GcodeNone]
          [] keycode = CMD_FEED_HOLD_LEGACY ->
               [k |-> KNote(k0, "rt_command", KEYPAD_PROCESS_KEYPRESS, "CMD_FEED_HOLD"),
                command |-> GcodeNone]
          [] keycode = CMD_CYCLE_START_LEGACY ->
               [k |-> KNote(k0, "rt_command", KEYPAD_PROCESS_KEYPRESS, "CMD_CYCLE_START"),
                command |-> GcodeNone]
          [] keycode = KEY_HOME -> [k |-> k0, command |-> "$H"]
          [] keycode = JOG_XR -> [k |-> k0, command |-> GcodeJog]
          [] OTHER -> [k |-> k0, command |-> GcodeNone]

\* What follows the switch: the command built is handed to the interpreter,
\* a jog command only while the key is still pressed.
KeypadGcode(k, cmd, in) ==
    LET jogCommand == cmd = GcodeJog
    IN  IF cmd # GcodeNone /\ ~(jogCommand /\ k.keyreleased)
        THEN KNote([k EXCEPT !.jogging = @ \/ (jogCommand /\ in.added)],
                   "gcode", cmd, in.added)
        ELSE k

\* A faulty handler that processes keys in the idle state only.
KeypadProcessKeypress_IdleOnly(k, state, in) ==
    LET got == KeypadGetKeycode(k)
        keycode == got.data
        k0 == KNote(got.k, "key", KEYPAD_PROCESS_KEYPRESS, keycode)
    IN  IF state # STATE_IDLE THEN KNote(k0, "discard", KEYPAD_PROCESS_KEYPRESS, state)
        ELSE IF keycode = NO_KEY THEN k0
        ELSE IF k0.on_keypress_preview # NULL /\ in.consumed
        THEN KNote(k0, "consumed", k0.on_keypress_preview, keycode)
        ELSE LET sw == KeypadSwitch(k0, keycode, in)
             IN  KeypadGcode(sw.k, sw.command, in)

KeypadProcessKeypress(k, state, in) ==
    LET got == KeypadGetKeycode(k)
        keycode == got.data
        k0 == KNote(got.k, "key", KEYPAD_PROCESS_KEYPRESS, keycode)
    IN  IF state = STATE_ESTOP THEN KNote(k0, "discard", KEYPAD_PROCESS_KEYPRESS, state)
        ELSE IF keycode = NO_KEY THEN k0
        ELSE IF k0.on_keypress_preview # NULL /\ in.consumed
        THEN KNote(k0, "consumed", k0.on_keypress_preview, keycode)
        ELSE LET sw == KeypadSwitch(k0, keycode, in)
             IN  KeypadGcode(sw.k, sw.command, in)

\* --------------------------------------------------- keypad_enqueue_keycode
\* A faulty enqueue that stores the key code whether the buffer is full or not.
KeypadEnqueueKeycode_NoFull(k, c) ==
    LET bptr == (k.keybuf.head + 1) % KEYBUF_SIZE
    IN  KeypadEnqueueRt(Accepted([k EXCEPT !.keybuf.buf[k.keybuf.head] = c,
                                           !.keybuf.head = bptr,
                                           !.keyreleased = FALSE], c),
                        KEYPAD_PROCESS_KEYPRESS)

KeypadEnqueueKeycode(k, c) ==
    LET bptr == (k.keybuf.head + 1) % KEYBUF_SIZE
    IN  IF MPG_MODE # 2 /\ c = CMD_MPG_MODE_TOGGLE THEN k
        ELSE IF c \in {CMD_JOG_CANCEL, ASCII_CAN}
        THEN LET k1 == [k EXCEPT !.keyreleased = TRUE]
                 k2 == IF k1.jogging
                       THEN KNote([k1 EXCEPT !.jogging = FALSE], "rt_command",
                                  "keypad_enqueue_keycode", "CMD_JOG_CANCEL")
                       ELSE k1
             IN  KNote(Flushed([k2 EXCEPT !.keybuf.tail = k2.keybuf.head]),
                       "flush", "keypad_enqueue_keycode", c)
        ELSE IF bptr # k.keybuf.tail
        THEN KeypadEnqueueRt(Accepted([k EXCEPT !.keybuf.buf[k.keybuf.head] = c,
                                                !.keybuf.head = bptr,
                                                !.keyreleased = FALSE], c),
                             KEYPAD_PROCESS_KEYPRESS)
        ELSE KNote(k, "full", "keypad_enqueue_keycode", c)

\* ------------------------------------------------------ i2c_enqueue_keycode
\* The completion of the I2C read a key-down strobe started.
I2cEnqueueKeycode(k, c) ==
    LET bptr == (k.keybuf.head + 1) % KEYBUF_SIZE
    IN  IF bptr # k.keybuf.tail
        THEN KeypadEnqueueRt(Accepted([k EXCEPT !.keybuf.buf[k.keybuf.head] = c,
                                                !.keybuf.head = bptr], c),
                             KEYPAD_PROCESS_KEYPRESS)
        ELSE KNote(k, "full", "i2c_enqueue_keycode", c)

\* ---------------------------------------------------- keypad_strobe_handler
KeypadStrobeHandler(k, keydown) ==
    LET k1 == [k EXCEPT !.keyreleased = ~keydown]
    IN  IF keydown THEN KNote([k1 EXCEPT !.i2c = TRUE], "call", "I2C_GetKeycode", "")
        ELSE LET k2 == IF k1.jogging
                       THEN KNote([k1 EXCEPT !.jogging = FALSE], "rt_command",
                                  "keypad_strobe_handler", "CMD_JOG_CANCEL")
                       ELSE k1
             IN  KNote(Flushed([k2 EXCEPT !.keybuf.tail = k2.keybuf.head]),
                       "flush", "keypad_strobe_handler", "")

\* ------------------------- keypad_process_keypress, statement by statement
\* The key-code buffer, keyreleased and jogging are shared with the
\* interrupt handlers above, which run between any two statements of the
\* foreground.  The handler is entered with the machine state of the moment.
FgEnter(k, state) == [k EXCEPT !.fg = [FgIdle EXCEPT !.pc = "read_tail", !.state = state]]

FgLeave(k) == [k EXCEPT !.fg = FgIdle]

\* keypad_get_keycode: bptr = keybuf.tail
FgReadTail(k) == [k EXCEPT !.fg.bptr = k.keybuf.tail, !.fg.pc = "test_head"]

\* if(bptr != keybuf.head), else return 0
FgTestHead(k) ==
    IF k.fg.bptr # k.keybuf.head
    THEN [k EXCEPT !.fg.pc = "read_buf"]
    ELSE KNote([k EXCEPT !.fg.data = NO_KEY, !.fg.pc = "dispatch"],
               "key", KEYPAD_PROCESS_KEYPRESS, NO_KEY)

\* data = keybuf.buf[bptr++]
FgReadBuf(k) == [k EXCEPT !.fg.data = k.keybuf.buf[k.fg.bptr], !.fg.pc = "write_tail"]

\* A faulty dequeue that leaves tail where it is.
FgWriteTail_Stay(k) ==
    KNote(Returned([k EXCEPT !.fg.pc = "dispatch"], k.fg.data),
          "key", KEYPAD_PROCESS_KEYPRESS, k.fg.data)

\* A faulty dequeue that skips a key code.
FgWriteTail_Skip(k) ==
    KNote(Returned([k EXCEPT !.keybuf.tail = (k.fg.bptr + 2) % KEYBUF_SIZE,
                             !.fg.pc = "dispatch"], k.fg.data),
          "key", KEYPAD_PROCESS_KEYPRESS, k.fg.data)

\* keybuf.tail = bptr & (KEYBUF_SIZE - 1); return data
FgWriteTail(k) ==
    KNote(Returned([k EXCEPT !.keybuf.tail = (k.fg.bptr + 1) % KEYBUF_SIZE,
                             !.fg.pc = "dispatch"], k.fg.data),
          "key", KEYPAD_PROCESS_KEYPRESS, k.fg.data)

\* From the e-stop test to the end of the switch.
FgDispatch(k, in) ==
    LET keycode == k.fg.data
    IN  IF k.fg.state = STATE_ESTOP
        THEN FgLeave(KNote(k, "discard", KEYPAD_PROCESS_KEYPRESS, k.fg.state))
        ELSE IF keycode = NO_KEY THEN FgLeave(k)
        ELSE IF k.on_keypress_preview # NULL /\ in.consumed
        THEN FgLeave(KNote(k, "consumed", k.on_keypress_preview, keycode))
        ELSE LET sw == KeypadSwitch(k, keycode, in)
             IN  IF sw.command = GcodeNone THEN FgLeave(sw.k)
                 ELSE [sw.k EXCEPT !.fg.command = sw.command, !.fg.pc = "test_released"]

\* if(!(jogCommand && keyreleased))
FgTestReleased(k) ==
    IF ~(k.fg.command = GcodeJog /\ k.keyreleased)
    THEN [k EXCEPT !.fg.pc = "enqueue_gcode"]
    ELSE FgLeave(KNote(k, "released", KEYPAD_PROCESS_KEYPRESS, k.fg.command))

\* addedGcode = grbl.enqueue_gcode(command)
FgEnqueueGcode(k, added) ==
    KNote([k EXCEPT !.fg.added = added, !.fg.pc = "set_jogging"],
          "gcode", k.fg.command, added)

\* jogging = jogging || (jogCommand && addedGcode)
FgSetJogging(k) ==
    FgLeave([k EXCEPT !.jogging = @ \/ (k.fg.command = GcodeJog /\ k.fg.added)])

\* ------------------------------------------------------------- keypad_init
\* The state after keypad_init: text is the macro of slot 0 (slot 1 is
\* erased, slot 2 empty), hook the preview hook a plugin installed, cap
\* hal.driver_cap.mpg_mode.
KeypadBoot(text, hook, cap) ==
    [is_executing |-> FALSE,
     command |-> CmdNull,
     eol_ok |-> FALSE,
     stream_read |-> NULL,
     macro |-> [i \in KeypadSlots |->
                   CASE i = 0 -> text [] i = 1 -> Erased [] i = 2 -> <<>>
                     [] OTHER -> <<"a">>],
     keybuf |-> [buf |-> [i \in 0 .. (KEYBUF_SIZE - 1) |-> NO_KEY], head |-> 0, tail |-> 0],
     keyreleased |-> TRUE,
     jogging |-> FALSE,
     on_keypress_preview |-> hook,
     driver_cap_mpg_mode |-> cap,
     read |-> SERIAL_READ,
     status_message |-> REPORT_STATUS,
     state |-> STATE_IDLE,
     queue |-> <<>>,
     fg |-> FgIdle,
     i2c |-> FALSE,
     pending |-> <<>>,
     presses |-> 0,
     out |-> <<>>,
     log |-> <<>>]

\* ------------------------------------------------------------------- Init
\* The installations a behaviour starts in.  In the first nothing is chained
\* before this plugin, slot 1 runs its macro and the bytes in front of the
\* array start with a NUL; in the second another plugin's handlers are
\* chained, the pin of slot 1 issues a feed hold and the bytes in front of
\* the array start with an ordinary character.  Slot 0 runs its macro and
\* holds any text; slot 1 holds a text that ends in a delimiter.
Setups ==
    {[ret |-> NULL, exec |-> NULL, preview |-> NULL, action_idx |-> 0, oob |-> <<>>],
     [ret |-> OTHER_MACRO_RETURN, exec |-> OTHER_MACRO_EXECUTE,
      preview |-> OTHER_KEYPRESS_PREVIEW, action_idx |-> 2, oob |-> <<"a">>]}

Settings(setup, text) ==
    [i \in {OobSlot} \cup Slots |->
        IF i = OobSlot THEN [action_idx |-> 0, data |-> setup.oob]
        ELSE IF i = 0 THEN [action_idx |-> 0, data |-> text]
        ELSE [action_idx |-> setup.action_idx, data |-> <<"a", BAR>>]]

\* The events of the engine: starts, teardowns, polls, what the trap and the
\* reset hook do, what the pin interrupt enqueues.
EngineEvents == {"start", "teardown", "idle_teardown", "poll", "warning", "call",
                 "task_add", "task_run", "rt_command"}

\* The texts of slot 0 when the triggers are explored: empty, erased, one
\* line, two lines.
SampleTexts == {<<>>, Erased, <<"a">>, <<BAR, "a">>}

\* texts: the texts slot 0 may hold; kinds: the events the log records.
\* ports: the assignments of aux ports to the slots.
InitBound(texts, kinds, ports) ==
    /\ \E setup \in Setups, text \in texts :
          /\ plugin_settings = Settings(setup, text)
          /\ on_macro_execute = setup.exec
          /\ on_keypress_preview = setup.preview
          /\ grbl_return = setup.ret
    /\ port \in ports
    /\ command = CmdNull
    /\ eol_ok = FALSE
    /\ active_stream = ZeroStream
    /\ status_message = NULL
    /\ on_macro_return = NULL
    /\ hal_stream = SerialStream
    /\ grbl_status = REPORT_STATUS
    /\ sys_state = STATE_IDLE
    /\ tasks = <<>>
    /\ fault = "none"
    /\ out = <<>>
    /\ pre = NoPre
    /\ run_slot = 0
    /\ switched = FALSE
    /\ log = <<>>
    /\ watch = kinds

\* Every slot has the aux port of its own index.
InitMacros(texts, kinds) == InitBound(texts, kinds, {[i \in Slots |-> i]})

\* macros.c explored, keypad.c at rest.
InitWatching(texts, kinds) ==
    /\ InitMacros(texts, kinds)
    /\ kp = KeypadBoot(<<"a">>, NULL, FALSE)

InitWith(texts) == InitWatching(texts, EngineEvents)

Init == InitWith(SampleTexts)

\* Every text of at most MaxLen characters in slot 0.
InitTexts == InitWith(Texts)

\* ---------------------------------------------------------------- actions
Fixed == UNCHANGED <<plugin_settings, port, on_macro_execute, on_keypress_preview, watch, kp>>

\* Every operation starts its log with what it is, when that is recorded.
Op(name, arg) == Note(St, "op", name, arg)

\* The arguments of the pin interrupt as the log holds them.
PinArg(irq_port, is_high) == <<irq_port, is_high>>

\* Pin interrupt on an aux port.
PinInterrupt ==
    /\ fault = "none"
    /\ \E irq_port \in {port[i] : i \in Slots}, is_high \in BOOLEAN :
          Set(ExecuteMacro(Op("execute_macro", PinArg(irq_port, is_high)),
                           irq_port, is_high))
    /\ UNCHANGED sys_state
    /\ Fixed

\* The foreground runs the oldest deferred task.
RunTask ==
    /\ fault = "none"
    /\ tasks # <<>>
    /\ Set(RunMacro(Note([St EXCEPT !.tasks = Tail(tasks)], "task_run", "run_macro",
                          IF Head(tasks).in_run THEN "raised_in_run" ELSE "raised_idle"),
                     Head(tasks).cmd))
    /\ UNCHANGED sys_state
    /\ Fixed

\* keypad_process_keypress consults the preview hook with a key code.
KeyPress ==
    /\ fault = "none"
    /\ \E c \in KeyCodes, chained \in BOOLEAN :
          /\ (c # OTHER_KEY \/ on_keypress_preview = NULL) => chained
          /\ Set(KeypressPreview(Op("keypress_preview", c), c, chained))
    /\ UNCHANGED sys_state
    /\ Fixed

\* The host calls grbl.on_macro_execute with a macro id.
Execute ==
    /\ fault = "none"
    /\ \E macro \in 0 .. (N_MACROS + 1) :
          Set(MacroExecute(Op("macro_execute", macro), macro))
    /\ UNCHANGED sys_state
    /\ Fixed

\* The interpreter asks hal.stream.read for the next character.
Poll ==
    /\ fault = "none"
    /\ hal_stream.read = GET_MACRO_CHAR
    /\ Set(GetMacroChar(Op("poll", "")))
    /\ UNCHANGED sys_state
    /\ Fixed

\* The host reports the status of a line through grbl.report.status_message.
StatusReport ==
    /\ fault = "none"
    /\ \E code \in StatusCodes :
          Set(IF grbl_status = TRAP
              THEN TrapStatusMessages(Op("status", code), code)
              ELSE Note(Op("status", code), "host_call", grbl_status, code))
    /\ UNCHANGED sys_state
    /\ Fixed

\* Soft reset: the host calls hal.driver_reset, which is plugin_reset.
Reset ==
    /\ fault = "none"
    /\ Set(PluginReset(Op("reset", "")))
    /\ UNCHANGED sys_state
    /\ Fixed

\* M99: the host calls grbl.on_macro_return if it is set.
MacroReturn ==
    /\ fault = "none"
    /\ grbl_return # NULL
    /\ Set(IF grbl_return = END_MACRO
           THEN EndMacro(Op("macro_return", ""))
           ELSE Note(Op("macro_return", ""), "host_call", grbl_return, ""))
    /\ UNCHANGED sys_state
    /\ Fixed

\* The host installs another of its streams in hal.stream (MPG mode switch,
\* a new connection, a file being streamed).
StreamSwitch ==
    /\ fault = "none"
    /\ \E st \in HostStreams \ {hal_stream} :
          Set([Op("stream_switch", st.read) EXCEPT
                 !.hal_stream = st,
                 !.switched = @ \/ command # CmdNull])
    /\ UNCHANGED sys_state
    /\ Fixed

\* The texts the settings interface is given: empty, one line, a text of
\* exactly the capacity, and one character more than the capacity.
FullText == [i \in 1 .. MACRO_LENGTH_MAX |-> IF i = 1 THEN BAR ELSE "a"]
LongText == [i \in 1 .. (MACRO_LENGTH_MAX + 1) |-> "a"]
SetValues == {<<>>, <<"a">>, FullText, LongText}

\* The value of a settings command as the log holds it.
SetArg(slot, value) == <<slot, value>>

\* $<Setting_MacroBase + slot>=value through the host's settings handler.
StoreSetting ==
    /\ fault = "none"
    /\ \E slot \in Slots, value \in SetValues :
          LET s0 == Op("macro_set", SetArg(slot, value))
          IN  IF SettingLengthOk(value)
              THEN /\ plugin_settings' = MacroSet(plugin_settings, slot, value)
                   /\ Set(Note(IF Overflows(value)
                               THEN [s0 EXCEPT !.fault = "buffer_overflow"] ELSE s0,
                               "return", "macro_set", Status_OK))
              ELSE /\ plugin_settings' = plugin_settings
                   /\ Set(Note(s0, "return", "settings_store_setting",
                               Status_SettingValueOutOfRange))
    /\ UNCHANGED <<sys_state, port, on_macro_execute, on_keypress_preview, watch, kp>>

\* The machine leaves or enters the idle state.
StateChange ==
    /\ fault = "none"
    /\ \E st \in SysStates \ {sys_state} : sys_state' = st
    /\ Set(Op("state_change", ""))
    /\ Fixed

Next ==
    \/ PinInterrupt
    \/ RunTask
    \/ KeyPress
    \/ Execute
    \/ Poll
    \/ StatusReport
    \/ Reset
    \/ MacroReturn
    \/ StreamSwitch
    \/ StateChange

Spec == Init /\ [][Next]_vars

\* The engine on every text: starts by key code and by id, polls, status
\* reports, resets, M99 and stream switches, with the machine idle.
NextEngine ==
    \/ KeyPress
    \/ Execute
    \/ Poll
    \/ StatusReport
    \/ Reset
    \/ MacroReturn
    \/ StreamSwitch

SpecTexts == InitTexts /\ [][NextEngine]_vars

\* The engine on every text while the host keeps polling the macro: the
\* host does not put another stream into hal.stream, and a poll that can
\* change the state is eventually made.
NextPolling ==
    \/ KeyPress
    \/ Execute
    \/ Poll
    \/ StatusReport
    \/ Reset
    \/ MacroReturn

SpecPolling == InitTexts /\ [][NextPolling]_vars /\ WF_vars(Poll)

\* The log also holds the operation with its arguments and what it returns.
CallEvents == EngineEvents \cup {"op", "answer", "return"}

InitCalls == InitWatching(SampleTexts, CallEvents)

\* The triggers with their arguments and results.
SpecCalls == InitCalls /\ [][Next]_vars

\* The settings interface, and runs started by key code, polled, ended by
\* exhaustion, by the trap and by reset.
NextStore ==
    \/ KeyPress
    \/ Poll
    \/ StatusReport
    \/ Reset
    \/ StoreSetting

SpecStore == InitCalls /\ [][NextStore]_vars

\* The pin interrupt handler on every assignment of ports: a slot has port
\* 0, port 1 or none, two slots may have the same port, and the handler is
\* called with port 0, 1 or 2, bound to a slot or not.
IOPORT_UNASSIGNED == 255
PortMaps == [Slots -> {0, 1, IOPORT_UNASSIGNED}]
IrqPorts == 0 .. 2

PinEvent ==
    /\ fault = "none"
    /\ \E irq_port \in IrqPorts, is_high \in BOOLEAN :
          Set(ExecuteMacro(Op("execute_macro", PinArg(irq_port, is_high)),
                           irq_port, is_high))
    /\ UNCHANGED sys_state
    /\ Fixed

NextPins ==
    \/ PinEvent
    \/ RunTask
    \/ Poll
    \/ StateChange

InitPins ==
    /\ InitBound({<<"a">>}, CallEvents, PortMaps)
    /\ kp = KeypadBoot(<<"a">>, NULL, FALSE)

SpecPins == InitPins /\ [][NextPins]_vars

\* ------------------------------------------------------- keypad.c: actions
\* keypad.c leaves the state of macros.c alone.
MacrosIdle ==
    UNCHANGED <<plugin_settings, port, on_macro_execute, on_keypress_preview, command,
                eol_ok, active_stream, status_message, on_macro_return, hal_stream,
                grbl_status, grbl_return, sys_state, tasks, fault, out, pre, run_slot,
                switched, log, watch>>

\* Most key presses of a behaviour.
MaxKeys == 2

\* The keys pressed: the allow-listed ones and the macro keys of the slot
\* with a text, the erased slot and the empty slot.
KeypadKeys == AllowKeys \cup {MACROUP, MACROLEFT, MACRODOWN}

\* A key code of keys arrives from the keypad (interrupt context), at most
\* most of them in a behaviour.
KeypadPress(keys, most) ==
    /\ kp.presses < most
    /\ \E c \in keys :
          kp' = [KeypadEnqueueKeycode(KBegin(kp, "keypad_enqueue_keycode", c), c)
                   EXCEPT !.presses = @ + 1]
    /\ MacrosIdle

KeypadKey == KeypadPress(KeypadKeys, MaxKeys)

\* The host runs the deferred call at the head of its queue with the
\* machine state of that moment: keypad_process_keypress ...
KeypadKeyTask ==
    /\ kp.queue # <<>>
    /\ Head(kp.queue) = KEYPAD_PROCESS_KEYPRESS
    /\ \E in \in KeypadInputsFor(kp, kp.state, KeypadGetKeycode(kp).data) :
          kp' = KeypadProcessKeypress(
                    KBegin([kp EXCEPT !.queue = Tail(@)], KEYPAD_PROCESS_KEYPRESS, kp.state),
                    kp.state, in)
    /\ MacrosIdle

\* ... or run_macro.
KeypadStartTask ==
    /\ kp.queue # <<>>
    /\ Head(kp.queue) = RUN_MACRO
    /\ kp' = KeypadRunMacro(KBegin([kp EXCEPT !.queue = Tail(@)], RUN_MACRO, kp.state),
                            kp.state)
    /\ MacrosIdle

\* The host polls hal.stream.read.
KeypadPoll ==
    /\ kp' = IF kp.read = GET_MACRO_CHAR
             THEN KeypadGetMacroChar(KBegin(kp, "read", kp.read))
             ELSE KNote(KBegin(kp, "read", kp.read), "poll", kp.read, SERIAL_NO_DATA)
    /\ MacrosIdle

\* The host reports the status of a line through grbl.report.status_message.
KeypadStatusReport ==
    /\ \E status_code \in StatusCodes :
          kp' = IF kp.status_message = TRAP_STATUS_REPORT
                THEN KeypadTrapStatusReport(KBegin(kp, "status", status_code), status_code)
                ELSE KNote(KBegin(kp, "status", status_code), "return", kp.status_message,
                           status_code)
    /\ MacrosIdle

\* Soft reset: the host calls hal.driver_reset.
KeypadReset ==
    /\ kp' = KeypadPluginReset(KBegin(kp, "reset", ""))
    /\ MacrosIdle

\* The machine changes state.
KeypadStateChange ==
    /\ \E st \in KeypadStates \ {kp.state} :
          kp' = [KBegin(kp, "state_change", st) EXCEPT !.state = st]
    /\ MacrosIdle

NextKeypad ==
    \/ KeypadKey
    \/ KeypadKeyTask
    \/ KeypadStartTask
    \/ KeypadPoll
    \/ KeypadStatusReport
    \/ KeypadReset
    \/ KeypadStateChange

\* The texts of slot 0: one line without and with a trailing delimiter.
KeypadTexts == {<<"a">>, <<"a", BAR>>}

InitKeypad ==
    /\ InitMacros({<<>>}, {})
    /\ on_macro_execute = NULL
    /\ \E text \in KeypadTexts, hook \in {NULL, OTHER_KEYPRESS_PREVIEW}, cap \in BOOLEAN :
          kp = KeypadBoot(text, hook, cap)

\* keypad.c: keys, its macro engine, polls, status reports, resets.
SpecKeypad == InitKeypad /\ [][NextKeypad]_vars

\* Key processing in every machine state, with the starts the keys request
\* and the resets that end them.
NextKeys ==
    \/ KeypadKey
    \/ KeypadKeyTask
    \/ KeypadStartTask
    \/ KeypadReset
    \/ KeypadStateChange

SpecKeys == InitKeypad /\ [][NextKeys]_vars

\* Most macro keys of a behaviour of runs.
MaxMacroKeys == 3

\* The key of the slot with a text or the key of the empty slot arrives.
KeypadMacroKey == KeypadPress({MACROUP, MACRODOWN}, MaxMacroKeys)

\* Runs of keypad.c one after the other: macro keys, deferred starts, polls,
\* status reports and resets, the machine idle.
NextRuns ==
    \/ KeypadMacroKey
    \/ KeypadKeyTask
    \/ KeypadStartTask
    \/ KeypadPoll
    \/ KeypadStatusReport
    \/ KeypadReset

SpecRuns == InitKeypad /\ [][NextRuns]_vars

\* --------------------------------- keypad.c: interrupts and the foreground
\* The strobe interrupt: a key went down (at most most times in a behaviour,
\* one I2C read at a time) or was released.
KeypadStrobe(keydowns, most) ==
    /\ \E keydown \in keydowns :
          /\ keydown => (kp.presses < most /\ ~kp.i2c)
          /\ kp' = [KeypadStrobeHandler(KBegin(kp, "keypad_strobe_handler", keydown), keydown)
                     EXCEPT !.presses = IF keydown THEN @ + 1 ELSE @]
    /\ MacrosIdle

\* The I2C read completes with a key code of keys.
KeypadI2c(keys) ==
    /\ kp.i2c
    /\ \E c \in keys :
          kp' = I2cEnqueueKeycode(KBegin([kp EXCEPT !.i2c = FALSE], "i2c_enqueue_keycode", c),
                                  c)
    /\ MacrosIdle

\* The host runs the deferred keypad_process_keypress at the head of its
\* queue ...
FgCall ==
    /\ kp.fg.pc = "idle"
    /\ kp.queue # <<>>
    /\ Head(kp.queue) = KEYPAD_PROCESS_KEYPRESS
    /\ kp' = FgEnter(KBegin([kp EXCEPT !.queue = Tail(@)], KEYPAD_PROCESS_KEYPRESS,
                            kp.state), kp.state)
    /\ MacrosIdle

\* ... and the handler runs, one statement at a time.
StepReadTail == kp.fg.pc = "read_tail" /\ kp' = FgReadTail(kp) /\ MacrosIdle

StepTestHead == kp.fg.pc = "test_head" /\ kp' = FgTestHead(kp) /\ MacrosIdle

StepReadBuf == kp.fg.pc = "read_buf" /\ kp' = FgReadBuf(kp) /\ MacrosIdle

StepWriteTail == kp.fg.pc = "write_tail" /\ kp' = FgWriteTail(kp) /\ MacrosIdle

StepDispatch ==
    /\ kp.fg.pc = "dispatch"
    /\ \E in \in KeypadInputsFor(kp, kp.fg.state, kp.fg.data) :
          \* grbl.enqueue_gcode is called in a later step
          in.added /\ kp' = FgDispatch(kp, in)
    /\ MacrosIdle

StepTestReleased == kp.fg.pc = "test_released" /\ kp' = FgTestReleased(kp) /\ MacrosIdle

StepEnqueueGcode ==
    /\ kp.fg.pc = "enqueue_gcode"
    /\ \E added \in BOOLEAN : kp' = FgEnqueueGcode(kp, added)
    /\ MacrosIdle

StepSetJogging == kp.fg.pc = "set_jogging" /\ kp' = FgSetJogging(kp) /\ MacrosIdle

\* Most key codes offered in a behaviour of the buffer.
MaxFifoKeys == 9

\* Two keys the handler answers with a realtime command.
FifoKeys == {CMD_FEED_HOLD_LEGACY, CMD_CYCLE_START_LEGACY}

KeypadFifoKey == KeypadPress(FifoKeys, MaxFifoKeys)

KeypadKeyDown == KeypadStrobe({TRUE}, MaxFifoKeys)

KeypadFifoI2c == KeypadI2c(FifoKeys)

\* The ring buffer without a flush: both enqueue functions offer key codes
\* while the foreground takes them out.
NextFifo ==
    \/ KeypadFifoKey
    \/ KeypadKeyDown
    \/ KeypadFifoI2c
    \/ FgCall
    \/ StepReadTail
    \/ StepTestHead
    \/ StepReadBuf
    \/ StepWriteTail
    \/ StepDispatch

InitFifo ==
    /\ InitMacros({<<>>}, {})
    /\ on_macro_execute = NULL
    /\ kp = KeypadBoot(<<"a">>, NULL, FALSE)

SpecFifo == InitFifo /\ [][NextFifo]_vars

\* Most key codes offered in a behaviour of the buffer with flushes.
MaxBufferKeys == 9

\* One key the handler answers with a realtime command, and the key code
\* that flushes the buffer.
KeypadBufferKey == KeypadPress({CMD_FEED_HOLD_LEGACY, ASCII_CAN}, MaxBufferKeys)

\* A key goes down or is released.
KeypadBufferStrobe == KeypadStrobe(BOOLEAN, MaxBufferKeys)

KeypadBufferI2c == KeypadI2c({CMD_FEED_HOLD_LEGACY})

\* The ring buffer with flushes.
NextBuffer ==
    \/ KeypadBufferKey
    \/ KeypadBufferStrobe
    \/ KeypadBufferI2c
    \/ FgCall
    \/ StepReadTail
    \/ StepTestHead
    \/ StepReadBuf
    \/ StepWriteTail
    \/ StepDispatch

SpecBuffer == InitFifo /\ [][NextBuffer]_vars

\* Most jog keys and release codes of a behaviour of jogs.
MaxJogKeys == 3

\* A jog key or the code the keypad sends when the key is released.
KeypadJogKey == KeypadPress({JOG_XR, CMD_JOG_CANCEL}, MaxJogKeys)

KeypadJogStrobe == KeypadStrobe(BOOLEAN, MaxJogKeys)

KeypadJogI2c == KeypadI2c({JOG_XR})

\* Jogging: jog keys and releases from the interrupts, the handler in the
\* foreground.
NextJog ==
    \/ KeypadJogKey
    \/ KeypadJogStrobe
    \/ KeypadJogI2c
    \/ FgCall
    \/ StepReadTail
    \/ StepTestHead
    \/ StepReadBuf
    \/ StepWriteTail
    \/ StepDispatch
    \/ StepTestReleased
    \/ StepEnqueueGcode
    \/ StepSetJogging

SpecJog == InitFifo /\ [][NextJog]_vars

\* ================================================================= claims
Events(l, ev) == {i \in DOMAIN l : l[i].ev = ev}

\* The engine state a start request may touch.
engine == <<command, eol_ok, active_stream, status_message, on_macro_return,
            hal_stream, grbl_status, grbl_return>>

\* T with every delimiter replaced by a line feed.
MapDelimiters(T) == [i \in 1 .. Len(T) |-> IF T[i] = BAR THEN ASCII_LF ELSE T[i]]

\* ... followed by a line feed unless T ends with a delimiter.
Expected(T) ==
    IF T # <<>> /\ T[Len(T)] = BAR
    THEN MapDelimiters(T)
    ELSE Append(MapDelimiters(T), ASCII_LF)

\* C1: when a poll answers "no data", the characters the polls of that run
\* returned since its start are the slot's text with every delimiter replaced
\* by a line feed, and one more line feed iff the text does not end with a
\* delimiter.
C1_PollSequence ==
    \A i \in Events(log, "poll") :
        log[i].code = SERIAL_NO_DATA =>
            /\ i > 1
            /\ log[i - 1].ev = "teardown"
            /\ log[i - 1].out = Expected(plugin_settings[log[i - 1].slot].data)

\* A run of "a|a" has ended by exhaustion after the polls returned a LF a LF.
C1_Witness ==
    /\ Len(log) = 2
    /\ log[2].ev = "poll" /\ log[2].code = SERIAL_NO_DATA
    /\ log[1].ev = "teardown"
    /\ plugin_settings[log[1].slot].data = <<"a", BAR, "a">>
    /\ log[1].out = <<"a", ASCII_LF, "a", ASCII_LF>>

\* C2 as stated: a run is active iff hal.stream.read is get_macro_char.
C2_Original == (command # CmdNull) <=> (hal_stream.read = GET_MACRO_CHAR)

\* C2, amended: if hal.stream.read is get_macro_char a run is active; a run is
\* active with another character source only when the host has replaced
\* hal.stream during that run.
C2_RunAndStream ==
    /\ hal_stream.read = GET_MACRO_CHAR => command # CmdNull
    /\ (command # CmdNull /\ hal_stream.read # GET_MACRO_CHAR) => switched

\* A run is active and the host has installed another stream.
C2_Witness ==
    /\ command # CmdNull
    /\ command.pos > 0
    /\ hal_stream.read # GET_MACRO_CHAR
    /\ switched
    /\ tasks # <<>>

\* C3: after a teardown (by any path) the status and macro-return bindings,
\* and the character source unless the host replaced it during the run, have
\* the values they had immediately before the run started, and none of the
\* three is a hook of the engine.
C3_TeardownRestores ==
    \A i \in Events(log, "teardown") :
        /\ ~log[i].switched => hal_stream = log[i].pre.stream
        /\ grbl_status = log[i].pre.status
        /\ grbl_return = log[i].pre.ret
        /\ hal_stream.read # GET_MACRO_CHAR
        /\ grbl_status # TRAP
        /\ grbl_return # END_MACRO

\* C4: a start request (deferred pin task, key code, invocation by id)
\* evaluated while a run is active changes nothing of the engine.
C4_StartWhileActive ==
    [][(command # CmdNull /\ (RunTask \/ KeyPress \/ Execute)) => UNCHANGED engine]_vars

\* C5 as stated: a pin trigger raised while a run is active never starts a run
\* later, after that run has ended.
C5_Original ==
    \A i \in Events(log, "task_run") :
        (log[i].code = "raised_in_run" /\ ~log[i].active) => Events(log, "start") = {}

\* C5, amended: a deferred start evaluated while a run is active and the
\* character source is the substitute is rejected and not retried: the task
\* is consumed and nothing of the engine changes.  (The trigger itself is
\* queued whenever the machine is idle, run or no run.)
C5_RejectedNotRetried ==
    [][(RunTask /\ command # CmdNull /\ hal_stream.read = GET_MACRO_CHAR)
          => (UNCHANGED engine /\ tasks' = Tail(tasks))]_vars

\* A task raised during a run has been evaluated during the run, polls
\* already made, and dropped.
C5_Witness ==
    /\ Len(log) = 1
    /\ log[1].ev = "task_run" /\ log[1].code = "raised_in_run" /\ log[1].active
    /\ command # CmdNull /\ command.pos > 0
    /\ hal_stream.read = GET_MACRO_CHAR
    /\ tasks = <<>>

\* C6: every accepted start happens with the machine idle.
C6_IdleGating ==
    [][Events(log', "start") # {} => sys_state = STATE_IDLE]_vars

\* A deferred start whose machine left idle after the interrupt was dropped.
C6_Witness ==
    /\ Len(log) = 1
    /\ log[1].ev = "task_run" /\ ~log[1].active
    /\ command = CmdNull
    /\ sys_state # STATE_IDLE
    /\ plugin_settings[0].data = <<"a">>
    /\ plugin_settings[1].action_idx = 0

\* C7: a non-success status that reaches the trap of a run whose character
\* source is the substitute ends the run with the three bindings at their
\* pre-run values.
C7_AbortConverges ==
    [][Events(log', "warning") # {} =>
          /\ fault' = "none"
          /\ command' = CmdNull
          /\ hal_stream' = pre.stream
          /\ grbl_status' = pre.status
          /\ grbl_return' = pre.ret]_vars

ResetCalls(l) == {i \in Events(l, "call") : l[i].h = DRIVER_RESET}

\* C8 as stated: at a reset the three bindings have their pre-run values when
\* the chained reset handler is called, which is called exactly once.
C8_Original ==
    [][Reset =>
          /\ Cardinality(ResetCalls(log')) = 1
          /\ \A i \in ResetCalls(log') :
                command # CmdNull =>
                    /\ ~log'[i].active
                    /\ log'[i].bind = pre]_vars

\* C8, amended: when the chained reset handler is called the run has been
\* torn down (no cursor, the character source is not the substitute), the
\* status and macro-return bindings have the values they had immediately
\* before the start of the run, and so has the character source, unless the
\* host replaced it during the run: then it is the stream the host
\* installed.  The chained handler is called exactly once per reset, run or
\* no run, and with no run the reset changes no binding.
C8_ResetConverges ==
    [][Reset =>
          /\ Cardinality(ResetCalls(log')) = 1
          /\ \A i \in ResetCalls(log') :
                /\ ~log'[i].active
                /\ log'[i].bind.stream.read # GET_MACRO_CHAR
                /\ command # CmdNull =>
                      /\ log'[i].bind.status = pre.status
                      /\ log'[i].bind.ret = pre.ret
                      /\ log'[i].bind.stream = IF hal_stream.read = GET_MACRO_CHAR
                                               THEN pre.stream ELSE hal_stream
                /\ command = CmdNull => log'[i].bind = Bindings(St)]_vars

\* A run was reset before its first poll.
C8_Witness ==
    /\ Len(log) = 2
    /\ log[1].ev = "teardown" /\ log[1].out = <<>> /\ ~log[1].switched
    /\ log[2].ev = "call" /\ log[2].h = DRIVER_RESET
    /\ log[2].bind = log[1].pre
    /\ log[2].bind.ret = OTHER_MACRO_RETURN

\* C9: end_macro with no run active changes nothing, and end_macro twice is
\* end_macro once.
C9_TeardownIdempotent ==
    /\ command = CmdNull => Prog(EndMacro(St)) = Prog(St)
    /\ Prog(EndMacro(EndMacro(St))) = Prog(EndMacro(St))

\* A reset has called end_macro with no run active, after an earlier run.
C9_Witness ==
    /\ Len(log) = 2
    /\ log[1].ev = "idle_teardown"
    /\ log[2].h = DRIVER_RESET
    /\ active_stream # ZeroStream
    /\ grbl_return = OTHER_MACRO_RETURN

\* C10: a non-success status trapped in a run whose character source is the
\* substitute: one warning with the code, then the status binding re-chained
\* and the saved handler (if any) called once with the code, then teardown.
C10_TrapOrder ==
    Events(log, "warning") # {} =>
        /\ fault = "none"
        /\ log[1].ev = "warning"
        /\ LET saved == log[1].pre.status
           IN  IF saved # NULL
               THEN /\ Len(log) = 3
                    /\ log[2].ev = "call" /\ log[2].h = saved
                    /\ log[2].code = log[1].code
                    /\ log[2].bind.status = saved
                    /\ log[2].active
                    /\ log[3].ev = "teardown"
               ELSE /\ Len(log) = 2
                    /\ log[2].ev = "teardown"
        /\ command = CmdNull

\* The next poll finds the text exhausted and the line feed delivered.
Exhausted == command # CmdNull /\ CharAt(command) = NUL /\ eol_ok

\* The trap has warned of a non-success status.
Trapped(l) ==
    /\ Events(l, "warning") # {}
    /\ \A i \in Events(l, "warning") : l[i].code # Status_OK

\* C11 as stated: a run ends only in a poll that finds the text exhausted, in
\* the trap of a non-success status, or in a reset.
C11_Original ==
    [][(command # CmdNull /\ command' = CmdNull) =>
          \/ Poll /\ Exhausted
          \/ StatusReport /\ Trapped(log')
          \/ Reset]_vars

\* C11, amended: a run ends only in a poll that finds the text exhausted, in
\* the trap of a non-success status, in a reset, or when the host calls the
\* macro-return callback (M99), which is bound to the teardown routine while
\* a run is active.  No other operation ends a run.
C11_EndPaths ==
    [][(command # CmdNull /\ command' = CmdNull) =>
          \/ Poll /\ Exhausted
          \/ StatusReport /\ Trapped(log')
          \/ Reset
          \/ MacroReturn /\ grbl_return = END_MACRO]_vars

\* The host's macro-return call has ended a run in the middle of its text.
C11_Witness ==
    /\ Len(log) = 1
    /\ log[1].ev = "teardown" /\ log[1].active
    /\ log[1].out = <<"a">>
    /\ plugin_settings[log[1].slot].data = <<"a", BAR>>
    /\ command = CmdNull

\* C12: a poll that finds the cursor at the terminating NUL with the line
\* feed already delivered tears the run down and answers "no data", and the
\* run is gone afterwards; every other poll returns a character and leaves
\* the run active with the substitute as character source.
C12_ExhaustionPoll ==
    [][Poll =>
          IF Exhausted
          THEN /\ Len(log') = 2
               /\ log'[1].ev = "teardown"
               /\ log'[2].ev = "poll" /\ log'[2].code = SERIAL_NO_DATA
               /\ command' = CmdNull
               /\ hal_stream'.read # GET_MACRO_CHAR
          ELSE /\ Len(log') = 1
               /\ log'[1].ev = "poll" /\ log'[1].code # SERIAL_NO_DATA
               /\ command' # CmdNull
               /\ hal_stream'.read = GET_MACRO_CHAR]_vars

\* The run of "|a" has delivered its two lines and was ended by the poll
\* after them.
C12_Witness ==
    /\ Len(log) = 2
    /\ log[1].ev = "teardown" /\ log[1].active
    /\ log[1].out = <<ASCII_LF, "a", ASCII_LF>>
    /\ log[2].ev = "poll" /\ log[2].code = SERIAL_NO_DATA
    /\ command = CmdNull
    /\ hal_stream.read # GET_MACRO_CHAR

\* The number of delimiters of a text, of line feeds of an output.
Delimiters(T) == Cardinality({i \in DOMAIN T : T[i] = BAR})
LineFeeds(o) == Cardinality({i \in DOMAIN o : o[i] = ASCII_LF})

\* The teardowns of the log that a poll made on exhaustion.
ExhaustionTeardowns(l) ==
    {i \in Events(l, "teardown") :
        i < Len(l) /\ l[i + 1].ev = "poll" /\ l[i + 1].code = SERIAL_NO_DATA}

\* C13 as stated: a complete run of a text with k delimiters delivers k + 1
\* lines.
C13_Original ==
    \A i \in ExhaustionTeardowns(log) :
        LineFeeds(log[i].out) = Delimiters(plugin_settings[log[i].slot].data) + 1

\* C13, amended: a complete run of a text T with k delimiters delivers k + 1
\* lines when T does not end with a delimiter and k lines when it does: the
\* output has a line feed exactly at the positions of the delimiters of T,
\* and after them one more line feed iff T does not end with a delimiter.
C13_LinesDelivered ==
    \A i \in ExhaustionTeardowns(log) :
        LET T == plugin_settings[log[i].slot].data
            o == log[i].out
            closed == T[Len(T)] = BAR
        IN  /\ LineFeeds(o) = Delimiters(T) + (IF closed THEN 0 ELSE 1)
            /\ Len(o) = Len(T) + (IF closed THEN 0 ELSE 1)
            /\ \A j \in DOMAIN T : (o[j] = ASCII_LF) <=> (T[j] = BAR)
            /\ ~closed => o[Len(o)] = ASCII_LF

\* The run of "|a|" is complete: two delimiters, two lines.
C13_Witness ==
    /\ ExhaustionTeardowns(log) = {1}
    /\ plugin_settings[log[1].slot].data = <<BAR, "a", BAR>>
    /\ LineFeeds(log[1].out) = 2
    /\ command = CmdNull

\* The operation the log is of, when the log records operations.
IsOp(l, name) == Len(l) > 0 /\ l[1].ev = "op" /\ l[1].h = name

\* The slot holds a text: not empty, not erased.
Assigned(slot) ==
    LET data == plugin_settings[slot].data
    IN  data # <<>> /\ data[1] # NUL /\ data[1] # XFF

\* C14: macro_execute(id) with an id outside 1..N_MACROS (0 included) or of
\* a slot without text starts no run and returns what the chained handler
\* returns, Status_Unhandled if there is none; with the id of a slot that
\* holds a text it returns Status_OK, the start accepted or not.
C14_ExecuteStatus ==
    IsOp(log, "macro_execute") =>
        LET id == log[1].code
            last == log[Len(log)]
        IN  /\ last.ev = "return" /\ last.h = "macro_execute"
            /\ IF id \in 1 .. N_MACROS /\ Assigned(id - 1)
               THEN last.code = Status_OK
               ELSE /\ Events(log, "start") = {}
                    /\ last.code = IF on_macro_execute # NULL
                                   THEN on_macro_execute ELSE Status_Unhandled
                    /\ on_macro_execute # NULL =>
                          \E i \in Events(log, "call") : log[i].h = on_macro_execute

\* The realtime command of each trigger action but "run macro", as the
\* settings interface names the actions (BUTTON_ACTIONS).
ActionCommand ==
    [a \in 1 .. 10 |->
        CASE a = 1 -> "CMD_CYCLE_START"
          [] a = 2 -> "CMD_FEED_HOLD"
          [] a = 3 -> "CMD_SAFETY_DOOR"
          [] a = 4 -> "CMD_RESET"
          [] a = 5 -> "CMD_OVERRIDE_SPINDLE_STOP"
          [] a = 6 -> "CMD_OVERRIDE_COOLANT_MIST_TOGGLE"
          [] a = 7 -> "CMD_OVERRIDE_COOLANT_FLOOD_TOGGLE"
          [] a = 8 -> "CMD_PROBE_CONNECTED_TOGGLE"
          [] a = 9 -> "CMD_OPTIONAL_STOP_TOGGLE"
          [] a = 10 -> "CMD_SINGLE_BLOCK_TOGGLE"]

\* The slot whose port the interrupt came from.
SlotOfPort(irq_port) == CHOOSE i \in Slots : port[i] = irq_port

\* C15: a falling edge on the pin of a slot whose action is not "run macro"
\* issues exactly one realtime command, the one of the action, and enqueues
\* no task and changes nothing of the engine, whatever the machine state and
\* with or without a run; when the action is "run macro" no realtime command
\* is issued.
C15_RealtimeCommand ==
    [][IsOp(log', "execute_macro") =>
          LET irq_port == log'[1].code[1]
              is_high == log'[1].code[2]
              a == plugin_settings[SlotOfPort(irq_port)].action_idx
              sent == Events(log', "rt_command")
          IN  IF ~is_high /\ a # 0
              THEN /\ Cardinality(sent) = 1
                   /\ \A i \in sent : log'[i].code = ActionCommand[a]
                   /\ Events(log', "task_add") = {}
                   /\ tasks' = tasks
                   /\ UNCHANGED engine
              ELSE sent = {}]_vars

\* The pin of a slot with the action "feed hold" fell while a run was active
\* and the machine was not idle.
C15_Witness ==
    /\ IsOp(log, "execute_macro")
    /\ Len(log) = 2
    /\ log[2].ev = "rt_command" /\ log[2].code = "CMD_FEED_HOLD"
    /\ log[2].active
    /\ sys_state # STATE_IDLE

\* C16: a warning is emitted only by the trap, for a non-success status
\* reported while a run is active and the character source is the
\* substitute.  Start requests (accepted or dropped), polls (exhaustion
\* included), resets, macro-return calls and pin interrupts emit none.
C16_WarningOnlyOnTrap ==
    [][/\ Events(log', "warning") # {} =>
             /\ StatusReport
             /\ command # CmdNull
             /\ hal_stream.read = GET_MACRO_CHAR
             /\ grbl_status = TRAP
             /\ \A i \in Events(log', "warning") :
                   log'[i].h = TRAP /\ log'[i].code \in StatusCodes \ {Status_OK}
       /\ (KeyPress \/ RunTask \/ Execute \/ PinInterrupt \/ Poll \/ Reset \/ MacroReturn)
             => Events(log', "warning") = {}]_vars

\* An error status was trapped after the first character of a run: warning,
\* the host's handler, teardown.
C16_Witness ==
    /\ Len(log) = 3
    /\ log[1].ev = "warning" /\ log[1].code = Status_GcodeError
    /\ log[1].out = <<"a">>
    /\ log[2].h = REPORT_STATUS
    /\ log[3].ev = "teardown"
    /\ command = CmdNull

\* C17: while a run is active no operation changes the text of the slot the
\* cursor is in.
C17_TextImmutable ==
    [][command # CmdNull =>
          plugin_settings'[command.slot].data = plugin_settings[command.slot].data]_vars

C19_ProducerOnly ==
    [][/\ PinInterrupt =>
             /\ UNCHANGED engine
             /\ Events(log', "start") = {}
             /\ Cardinality(Events(log', "task_add") \cup Events(log', "rt_command")) <= 1
             /\ IF Events(log', "task_add") # {}
                THEN Len(tasks') = Len(tasks) + 1 /\ SubSeq(tasks', 1, Len(tasks)) = tasks
                ELSE tasks' = tasks
       /\ Events(log', "start") # {} => (RunTask \/ KeyPress \/ Execute)]_vars

\* The interrupt has queued a start while no run was active and nothing has
\* started yet.
C19_Witness ==
    /\ Len(log) = 1
    /\ log[1].ev = "task_add" /\ ~log[1].active
    /\ Len(tasks) = 1 /\ tasks[1].cmd = 0
    /\ plugin_settings[0].data = <<BAR, "a">>
    /\ command = CmdNull
    /\ hal_stream = SerialStream

\* The calls of the log to the macro-return callback saved at the start.
ReturnCalls(l) == {i \in Events(l, "call") : l[i].h = pre.ret}

\* C20 as stated: a run that ends by exhaustion restores the character
\* source and the status handler and then calls the macro-return callback
\* that was saved at the start, when there is one.
C20_Original ==
    [][(Poll /\ Exhausted) =>
          /\ hal_stream' = pre.stream
          /\ grbl_status' = pre.status
          /\ pre.ret # NULL => ReturnCalls(log') # {}]_vars

\* C20, amended: a run that ends by exhaustion restores the character
\* source, the status handler and the macro-return binding to the values
\* they had immediately before the start of the run.  The saved macro-return
\* callback is installed again, not called: the poll calls no handler.
C20_ExhaustionRestores ==
    [][(Poll /\ Exhausted) =>
          /\ hal_stream' = pre.stream
          /\ grbl_status' = pre.status
          /\ grbl_return' = pre.ret
          /\ on_macro_return' = NULL
          /\ status_message' = NULL
          /\ Events(log', "call") = {}]_vars

\* A run has ended by exhaustion with another plugin's macro-return callback
\* installed again.
C20_Witness ==
    /\ ExhaustionTeardowns(log) = {1}
    /\ log[1].pre.ret = OTHER_MACRO_RETURN
    /\ grbl_return = OTHER_MACRO_RETURN
    /\ grbl_status = REPORT_STATUS
    /\ hal_stream \in HostStreams
    /\ command = CmdNull

\* A status report has reached the trap of an active run whose character
\* source is the substitute.
TrapInRun == command # CmdNull /\ hal_stream.read = GET_MACRO_CHAR /\ grbl_status = TRAP

\* C21: a success status that reaches the trap of such a run passes through
\* unchanged (the trap returns it to the reporter as it is, without a call
\* or a message of its own) and nothing of the engine changes (cursor, eol
\* flag, saved values and the three bindings): the run continues from the
\* same position.
C21_SuccessPassesThrough ==
    [][(TrapInRun /\ IsOp(log', "status") /\ log'[1].code = Status_OK) =>
          /\ Len(log') = 2
          /\ log'[2].ev = "return" /\ log'[2].h = TRAP /\ log'[2].code = Status_OK
          /\ fault' = "none"
          /\ UNCHANGED engine]_vars

\* A success status was reported after the first line of a run of "|a".
C21_Witness ==
    /\ IsOp(log, "status") /\ log[1].code = Status_OK
    /\ Len(log) = 2 /\ log[2].ev = "return"
    /\ command = [slot |-> 0, pos |-> 1]
    /\ plugin_settings[0].data = <<BAR, "a">>
    /\ eol_ok
    /\ hal_stream.read = GET_MACRO_CHAR

\* C22: a status (success or not) that reaches the trap while the character
\* source is not the substitute is passed as it is to the saved status
\* handler, once; the trap emits no warning, tears nothing down and changes
\* nothing of the engine.
C22_ForwardWhenSwitched ==
    [][(IsOp(log', "status") /\ grbl_status = TRAP /\ hal_stream.read # GET_MACRO_CHAR) =>
          /\ fault' = "none"
          /\ status_message \notin {NULL, TRAP}
          /\ Cardinality(Events(log', "call")) = 1
          /\ \A i \in Events(log', "call") :
                log'[i].h = status_message /\ log'[i].code = log'[1].code
          /\ Events(log', "warning") = {}
          /\ Events(log', "teardown") \cup Events(log', "idle_teardown") = {}
          /\ UNCHANGED engine]_vars

\* C23: the bindings of the engine are installed only in a state without a
\* run: every accepted start finds the cursor unset.
C23_InstallOnlyWhenIdle ==
    [][Events(log', "start") # {} => command = CmdNull]_vars

\* C25: the preview hook answers "consumed" for every key code of a macro
\* slot, the start accepted or not; for any other key code it answers what
\* the chained preview handler answers, called once with the key code, "not
\* consumed" if there is none, and changes nothing of the engine.
C25_PreviewResult ==
    [][IsOp(log', "keypress_preview") =>
          LET c == log'[1].code
              last == log'[Len(log')]
              calls == Events(log', "call")
              answers == Events(log', "answer")
          IN  /\ last.ev = "return" /\ last.h = "keypress_preview"
              /\ IF c \in {"MACRO_KEY0", "MACRO_KEY1"}
                 THEN last.code = "true" /\ calls = {}
                 ELSE /\ UNCHANGED engine
                      /\ tasks' = tasks
                      /\ IF on_keypress_preview # NULL
                         THEN /\ Cardinality(calls) = 1
                              /\ \A i \in calls :
                                    log'[i].h = on_keypress_preview /\ log'[i].code = c
                              /\ Cardinality(answers) = 1
                              /\ \A i \in answers : last.code = log'[i].code
                         ELSE calls = {} /\ last.code = "false"]_vars

\* The key of a slot was consumed although its start was dropped: a run was
\* active and the machine was not idle.
C25_Witness ==
    /\ IsOp(log, "keypress_preview") /\ log[1].code = "MACRO_KEY0"
    /\ Len(log) = 2
    /\ log[2].ev = "return" /\ log[2].code = "true"
    /\ command = [slot |-> 1, pos |-> 1]
    /\ sys_state # STATE_IDLE

\* C28: the cursor of a run starts at offset 0 and never leaves the text (it
\* is at most at the terminating NUL).  A poll that finds a character
\* returns that character (a line feed for a delimiter) and advances the
\* cursor by one; the poll that returns the final line feed and the poll
\* that returns "no data" do not advance it (the latter ends the run); no
\* other operation moves the cursor of a run, short of ending the run or
\* starting one.
C28_CursorMonotone ==
    [][/\ Events(log', "start") # {} => command'.pos = 0
       /\ command' # CmdNull =>
             command'.pos \in 0 .. Len(plugin_settings[command'.slot].data)
       /\ (command # CmdNull /\ Events(log', "start") = {}) =>
             LET T == plugin_settings[command.slot].data
                 polls == Events(log', "poll")
             IN  IF polls = {} THEN command' \in {command, CmdNull}
                 ELSE IF command.pos < Len(T)
                 THEN /\ command' = [command EXCEPT !.pos = @ + 1]
                      /\ \A i \in polls :
                            log'[i].code = IF T[command.pos + 1] = BAR
                                           THEN ASCII_LF ELSE T[command.pos + 1]
                 ELSE IF ~eol_ok
                 THEN /\ command' = command
                      /\ \A i \in polls : log'[i].code = ASCII_LF
                 ELSE /\ command' = CmdNull
                      /\ \A i \in polls : log'[i].code = SERIAL_NO_DATA]_vars

\* The cursor of a run of "aa" rests on the terminating NUL after the poll
\* that returned the final line feed.
C28_Witness ==
    /\ Len(log) = 1
    /\ log[1].ev = "poll" /\ log[1].code = ASCII_LF
    /\ command = [slot |-> 0, pos |-> 2]
    /\ plugin_settings[0].data = <<"a", "a">>
    /\ out = <<"a", "a", ASCII_LF>>

\* C29: between operations the hooks of the engine are installed all
\* together or not at all: the cursor is set iff the status binding is the
\* trap iff the macro-return binding is the finish handler, and the
\* character source is the substitute only then.  (That the character
\* source is another stream which the host installed during the run is
\* granted.)
C29_HooksTogether ==
    /\ (command # CmdNull) <=> (grbl_status = TRAP)
    /\ (command # CmdNull) <=> (grbl_return = END_MACRO)
    /\ hal_stream.read = GET_MACRO_CHAR => command # CmdNull
    /\ (command # CmdNull /\ hal_stream.read # GET_MACRO_CHAR) => switched

\* C30: the saved status handler is never the trap and the saved
\* macro-return handler is never the finish handler of the engine.
C30_SavedNotOwn ==
    /\ status_message # TRAP
    /\ on_macro_return # END_MACRO

\* ------------------------------------------------------- keypad.c: claims
KEvents(l, ev) == {i \in DOMAIN l : l[i].ev = ev}

KHas(l, ev, h, code) == \E i \in KEvents(l, ev) : l[i].h = h /\ l[i].code = code

\* The key code the next keypad_process_keypress takes from the buffer.
NextKey == KeypadGetKeycode(kp).data

\* The step requests no macro and leaves the engine of keypad.c alone.
NoMacro ==
    /\ \A i \in DOMAIN kp'.log : kp'.log[i].h # "execute_macro"
    /\ kp'.queue = Tail(kp.queue)
    /\ kp'.is_executing = kp.is_executing
    /\ kp'.command = kp.command

\* The case of an allow-listed key ran.
AllowCase(key) ==
    /\ KHas(kp'.log, "case", KEYPAD_PROCESS_KEYPRESS, key)
    /\ key = KEY_STATUS => KHas(kp'.log, "rt_command", KEYPAD_PROCESS_KEYPRESS, "CMD_STATUS_REPORT")
    /\ key = RESET => KHas(kp'.log, "rt_command", KEYPAD_PROCESS_KEYPRESS, "CMD_RESET")
    /\ key = UNLOCK =>
          kp'.state \in {kp.state} \cup (IF kp.state = STATE_ALARM THEN {STATE_IDLE} ELSE {})
    /\ key = CMD_MPG_MODE_TOGGLE =>
          (kp.driver_cap_mpg_mode <=> \E i \in KEvents(kp'.log, "call") :
                                          kp'.log[i].h = "stream_mpg_enable")

\* The preview hook took the key.
Consumed(key) == KHas(kp'.log, "consumed", kp.on_keypress_preview, key)

\* C24 as stated: the keys '?', reset, unlock and MPG toggle are processed
\* in every machine state and never start a macro.
C24_Original ==
    [][(KeypadKeyTask /\ NextKey \in AllowKeys)
         => (NoMacro /\ (Consumed(NextKey) \/ AllowCase(NextKey)))]_vars

\* C24: keypad_process_keypress discards the keys '?', reset, unlock and MPG
\* toggle in the E-stop state; in every other machine state, idle or not, the
\* case of the key runs unless the preview hook consumes the key; in no state
\* do they request a macro or touch the engine.
C24_AllowListExceptEstop ==
    [][(KeypadKeyTask /\ NextKey \in AllowKeys)
         => /\ NoMacro
            /\ IF kp.state = STATE_ESTOP
               THEN /\ KHas(kp'.log, "discard", KEYPAD_PROCESS_KEYPRESS, STATE_ESTOP)
                    /\ KEvents(kp'.log, "case") = {}
                    /\ kp'.state = kp.state /\ kp'.read = kp.read
               ELSE Consumed(NextKey) \/ AllowCase(NextKey)]_vars

\* A status report key was processed with the machine in a cycle.
C24_Witness ==
    /\ KHas(kp.log, "op", KEYPAD_PROCESS_KEYPRESS, STATE_CYCLE)
    /\ KHas(kp.log, "rt_command", KEYPAD_PROCESS_KEYPRESS, "CMD_STATUS_REPORT")

\* No run of keypad.c is active and none is about to start.
KeypadAtRest == kp.read # GET_MACRO_CHAR /\ \A i \in DOMAIN kp.queue : kp.queue[i] # RUN_MACRO

\* C26: in keypad.c a start request dropped because the slot is empty or
\* erased, or because the machine is not idle when the deferred run_macro
\* runs, leaves is_executing false, and a request for a slot with a text made
\* while idle with no run active or pending is accepted.
C26_DroppedIsNoOp ==
    [][/\ \A i \in KEvents(kp'.log, "drop") :
             (\/ kp'.log[i].h = "execute_macro" /\ kp'.log[i].code = "empty"
              \/ kp'.log[i].h = RUN_MACRO /\ kp'.log[i].code # STATE_IDLE)
                => ~kp'.is_executing
       /\ \A i \in KEvents(kp'.log, "call") :
             (/\ kp'.log[i].h = "execute_macro"
              /\ KeypadCharAt(kp, [slot |-> kp'.log[i].code, pos |-> 0]) \notin {NUL, XFF}
              /\ kp.state = STATE_IDLE
              /\ KeypadAtRest)
                => KHas(kp'.log, "task_add", RUN_MACRO, "")]_vars

\* The last operation was the poll that handed the interpreter the line feed
\* ending the last line of the macro.
LastLineDelivered ==
    /\ KHas(kp.log, "poll", GET_MACRO_CHAR, ASCII_LF)
    /\ KeypadCharAt(kp, kp.command) = NUL

\* C27: in keypad.c the run is still active (stream substituted, trap
\* installed) when the status of the macro's last line is reported, and a
\* status other than success makes the trap emit the warning with that code.
C27_LastLineTrapped ==
    [][(KeypadStatusReport /\ LastLineDelivered)
         => /\ kp.read = GET_MACRO_CHAR
            /\ kp.status_message = TRAP_STATUS_REPORT
            /\ \A code \in StatusCodes \ {Status_OK} :
                  KHas(kp'.log, "op", "status", code)
                     => KHas(kp'.log, "warning", TRAP_STATUS_REPORT, code)]_vars

\* ------------------------------------------------------------ termination
\* The last operation ended a run that had made at most n + 1 polls before
\* the one ending it, n the length of the run's text.
TornDownInTime ==
    /\ command = CmdNull
    /\ \E i \in Events(log, "teardown") :
          Len(log[i].out) <= Len(plugin_settings[log[i].slot].data) + 1

\* C31: while the host keeps polling the macro, every started run is ended,
\* and it is ended no later than the (n + 2)-th poll of a text of length n.
C31_RunTerminates == (command # CmdNull) ~> TornDownInTime

\* A run of a text of MaxLen characters was ended by its last poll, the
\* (n + 2)-th.
C31_Witness ==
    /\ command = CmdNull
    /\ \E i \in Events(log, "teardown") :
          /\ Len(plugin_settings[log[i].slot].data) = MaxLen
          /\ Len(log[i].out) = MaxLen + 1
          /\ \E j \in Events(log, "poll") : log[j].code = SERIAL_NO_DATA

\* ------------------------------------------------------- output of a run
\* What the first poll of a run of T returns on an engine that has run
\* nothing before: the first character of T, a delimiter as a line feed, and
\* the line feed that ends the empty line when T is empty.
FirstOf(T) == IF T = <<>> THEN ASCII_LF ELSE MapDelimiters(T)[1]

\* C32: the first poll of a run of keypad.c that starts at the beginning of
\* its text returns what the text alone determines, whatever value the runs
\* before it left in eol_ok.
C32_FirstPollByText ==
    [][(KeypadPoll /\ kp.read = GET_MACRO_CHAR /\ kp.out = <<>> /\ kp.command.pos = 0)
         => kp'.out = <<FirstOf(kp.macro[kp.command.slot])>>]_vars

\* ------------------------------------------------------ the slot of a pin
\* The highest slot bound to the port, slot 0 when none is.
SlotActedOn(irq_port) ==
    LET bound == {i \in Slots : port[i] = irq_port}
    IN  IF bound = {} THEN 0 ELSE CHOOSE i \in bound : \A j \in bound : j <= i

\* C33: a falling edge on port p makes the pin interrupt handler act on the
\* highest slot bound to p, on slot 0 when no slot is bound to p: it issues
\* the realtime command of that slot's action or, the action being "run
\* macro" and the machine idle, enqueues the start of that slot.  A rising
\* edge changes nothing.
C33_SlotOfPin ==
    [][IsOp(log', "execute_macro") =>
          LET irq_port == log'[1].code[1]
              is_high == log'[1].code[2]
              idx == SlotActedOn(irq_port)
              a == plugin_settings[idx].action_idx
              sent == Events(log', "rt_command")
          IN  IF is_high
              THEN Len(log') = 1 /\ tasks' = tasks /\ UNCHANGED engine
              ELSE IF a # 0
              THEN /\ Cardinality(sent) = 1
                   /\ \A i \in sent : log'[i].code = ActionCommand[a]
                   /\ tasks' = tasks
              ELSE /\ sent = {}
                   /\ IF sys_state = STATE_IDLE /\ Len(tasks) < MaxTasks
                      THEN /\ Len(tasks') = Len(tasks) + 1
                           /\ tasks'[Len(tasks')].cmd = idx
                      ELSE tasks' = tasks]_vars

\* A falling edge on a port bound to no slot, slot 1 holding a port of its
\* own, has enqueued the start of slot 0.
C33_Witness ==
    /\ IsOp(log, "execute_macro")
    /\ ~log[1].code[2]
    /\ \A i \in Slots : port[i] # log[1].code[1]
    /\ port[1] # IOPORT_UNASSIGNED
    /\ Events(log, "task_add") # {}
    /\ tasks # <<>> /\ tasks[Len(tasks)].cmd = 0

\* The key codes in the buffer, from tail to head.
LiveKeys(kb) ==
    [i \in 1 .. ((kb.head - kb.tail) % KEYBUF_SIZE) |-> kb.buf[(kb.tail + i - 1) % KEYBUF_SIZE]]

BufferFull(kb) == (kb.head + 1) % KEYBUF_SIZE = kb.tail

BufferInRange(k) ==
    /\ k.keybuf.head \in 0 .. (KEYBUF_SIZE - 1)
    /\ k.keybuf.tail \in 0 .. (KEYBUF_SIZE - 1)
    /\ k.fg.bptr \in 0 .. (KEYBUF_SIZE - 1)
    /\ Len(LiveKeys(k.keybuf)) <= KEYBUF_SIZE - 1

\* C34: head and tail stay within 0..KEYBUF_SIZE-1 and the buffer never holds
\* more than KEYBUF_SIZE-1 key codes; a key code either enqueue function is
\* offered while the buffer is full is dropped, with head, tail, the buffered
\* key codes and the host's queue as they were; keypad_get_keycode comparing
\* the tail it read, still the tail of the buffer, with head and finding the
\* buffer empty returns 0 and leaves the buffer as it was.
C34_BufferBounds ==
    [][/\ BufferInRange(kp) /\ BufferInRange(kp')
       /\ ((KeypadBufferKey \/ KeypadBufferI2c) /\ BufferFull(kp.keybuf)
               /\ kp'.log[1].code # ASCII_CAN)
             => /\ kp'.keybuf = kp.keybuf
                /\ kp'.pending = kp.pending
                /\ kp'.queue = kp.queue
       /\ (StepTestHead /\ kp.fg.bptr = kp.keybuf.tail /\ kp.keybuf.tail = kp.keybuf.head)
             => /\ kp'.fg.data = NO_KEY
                /\ kp'.fg.pc = "dispatch"
                /\ kp'.keybuf = kp.keybuf]_vars

\* The foreground found the flushed buffer empty and, before it went on, the
\* buffer filled up and a further key code was dropped.
C34_Witness ==
    /\ KEvents(kp.log, "full") # {}
    /\ Len(LiveKeys(kp.keybuf)) = KEYBUF_SIZE - 1
    /\ kp.fg.pc = "dispatch"
    /\ kp.fg.data = NO_KEY

\* The calls of keypad_get_keycode still to return: those queued and the one
\* that has not written tail yet.
CallsToCome(k) ==
    Len(k.queue) + (IF k.fg.pc \in {"read_tail", "test_head", "read_buf", "write_tail"}
                    THEN 1 ELSE 0)

\* C35: without a flush the buffer holds, from tail to head, exactly the key
\* codes accepted and not yet returned, in the order they were accepted,
\* there is one call of keypad_get_keycode to come for each of them, and
\* every call returns the oldest of them and takes it, and only it, out --
\* whatever the interrupts do between the statements of the dequeue.
C35_FifoOrder ==
    [][/\ LiveKeys(kp'.keybuf) = kp'.pending
       /\ CallsToCome(kp') = Len(kp'.pending)
       /\ StepWriteTail => /\ kp.pending # <<>>
                           /\ kp'.fg.data = Head(kp.pending)
                           /\ kp'.pending = Tail(kp.pending)]_vars

\* The dequeue returned the key code of the last cell and wrapped tail, with
\* a key code of the other kind, accepted after it, in the first cell.
C35_Witness ==
    /\ kp.fg.pc = "dispatch"
    /\ kp.fg.bptr = KEYBUF_SIZE - 1
    /\ kp.fg.data = CMD_FEED_HOLD_LEGACY
    /\ kp.keybuf.tail = 0
    /\ kp.keybuf.head = 1
    /\ kp.pending = <<CMD_CYCLE_START_LEGACY>>

\* C36: a call of keypad_get_keycode that reads tail after the last flush
\* returns a key code accepted after that flush, the oldest not yet returned,
\* whatever the flush met in the foreground.
C36_FlushedKeysGone ==
    [][(StepWriteTail /\ ~kp.fg.flushed)
          => /\ kp.pending # <<>>
             /\ kp'.fg.data = Head(kp.pending)]_vars

\* C37: the key is never released with the jogging flag set.
C37_NoJogAfterRelease == ~(kp.keyreleased /\ kp.jogging)
====
